---- MODULE Spec2Model ----
(***************************************************************************)
(* Model of the mcp-rust multi-tenant MCP server: the stdio loop           *)
(* (mcp.rs), the request lifecycle (mcp.rs), the tenant directory and      *)
(* session table (tenant.rs) and the token-bucket rate limiter             *)
(* (rate_limiting.rs).                                                     *)
(*                                                                         *)
(* Three specifications share the variables:                               *)
(*   SpecLimiter  direct calls of AwsRateLimiter::check_aws_operation,     *)
(*                as the unit tests of rate_limiting.rs make them;         *)
(*   Spec         NumCalls overlapping MCPServer::handle_request calls,    *)
(*                as tests/concurrency_test.rs spawns them;                *)
(*   SpecRun      MCPServer::run, the stdio loop, one record at a time.    *)
(***************************************************************************)
EXTENDS Integers, Sequences, FiniteSets, TLC

VARIABLES
    env,            \* process environment: DEFAULT_TENANT_ID, DEFAULT_USER_ID, DEV_MODE
    tenant_configs, \* TenantManager.tenant_configs: tenant id -> TenantContext
    sessions,       \* TenantManager.sessions, in insertion order (index = fresh uuid)
    buckets,        \* AwsRateLimiter.buckets: bucket key -> RateLimitBucket
    now,            \* the clock (Instant::now / Utc::now), in ticks
    charges,        \* number of direct check_aws_operation calls made (SpecLimiter)
    last_charge,    \* arguments and return value of the latest check_aws_operation
    calls,          \* one record per handle_request call: position, request, session, response
    hist,           \* per call: what it did to its session's counters (observation only)
    admitted,       \* per tenant: number of requests that reached dispatch (observation only)
    run,            \* MCPServer::run: position, records read, shutdown flag, exit status
    out_buf,        \* bytes written to stdout and not yet delivered
    stdout,         \* bytes delivered on the output stream
    servers,        \* MCPServerRegistry.servers: key -> MCPServerConnection
    procs,          \* child processes and containers started so far (handle = index)
    reg,            \* the registry call in progress, the table lock, stdin and exit
    env_build,      \* connect_server building the environment of a child
    tool_probe,     \* a caller of HandlerRegistry with a session of its own
    cleanup,        \* cleanup_expired_sessions and its concurrent callers; the locks
                    \* of the sessions table and of each last_activity
    integration     \* an integration_connect call: its session, arguments, the
                    \* key-value store and what connect_server read from it

vars == <<env, tenant_configs, sessions, buckets, now, charges, last_charge,
          calls, hist, admitted, run, out_buf, stdout, servers, procs, reg,
          env_build, tool_probe, cleanup, integration>>

\* The state of the sub-server registry and of the direct callers of the
\* handler table, and the state of the request path
direct_vars == <<env_build, tool_probe, cleanup, integration>>
registry_vars == <<servers, procs, reg, direct_vars>>
mcp_vars == <<env, tenant_configs, sessions, buckets, now, charges, last_charge,
              calls, hist, admitted, run, out_buf, stdout>>

None == "none"

(***************************************************************************)
(* Bounds of the model.                                                    *)
(***************************************************************************)
\* The clock advances in ticks of 1/TicksPerSecond second, up to MaxTime ticks.
TicksPerSecond == 2
MaxTime == 2
\* Callers running beside cleanup_expired_sessions in SpecCleanup, each making
\* one call.
NumClients == 2
\* Direct limiter calls made in SpecLimiter.
MaxCharges == 3
\* Largest read_units / write_units / event_count offered to the limiter.
MaxUnits == 3

Min(a, b) == IF a <= b THEN a ELSE b

(***************************************************************************)
(* rate_limiting.rs                                                        *)
(***************************************************************************)

\* AwsServiceLimits handed to AwsRateLimiter::new.  TenantManager::new passes
\* AwsServiceLimits::default() (1000, 1000, 100, 500, 350, 10, 1000, 10, 500,
\* 200, 1000); the unit tests pass small values (dynamodb_read_units: 5).  The
\* model keeps the order of magnitude relations but scales every field down so
\* that a bucket can be exhausted within the bounds.
limits ==
    [ dynamodb_read_units              |-> 1,
      dynamodb_write_units             |-> 2,
      dynamodb_queries_per_sec         |-> 1,
      s3_get_requests_per_sec          |-> 2,
      s3_put_requests_per_sec          |-> 1,
      s3_list_requests_per_sec         |-> 1,
      eventbridge_put_events_per_sec   |-> 3,
      eventbridge_events_batch_size    |-> 2,
      secrets_manager_requests_per_sec |-> 2,
      aws_api_calls_per_sec            |-> 1,
      aws_burst_capacity               |-> 3 ]

\* enum AwsOperation; n is read_units / write_units / event_count and 0 for
\* the variants that carry no field.
Op(kind, n) == [kind |-> kind, n |-> n]

OpKinds == {"DynamoDbQuery", "DynamoDbRead", "DynamoDbWrite", "S3Get", "S3Put",
            "S3List", "EventBridgePutEvents", "SecretsManagerGet", "GenericAwsApi"}

\* AwsOperation::service_key
service_key(op) ==
    CASE op.kind = "DynamoDbQuery"        -> "dynamodb_query"
      [] op.kind = "DynamoDbRead"         -> "dynamodb_read"
      [] op.kind = "DynamoDbWrite"        -> "dynamodb_write"
      [] op.kind = "S3Get"                -> "s3_get"
      [] op.kind = "S3Put"                -> "s3_put"
      [] op.kind = "S3List"               -> "s3_list"
      [] op.kind = "EventBridgePutEvents" -> "eventbridge_put"
      [] op.kind = "SecretsManagerGet"    -> "secrets_get"
      [] op.kind = "GenericAwsApi"        -> "aws_api"

\* AwsRateLimiter::get_limits_for_operation: <<capacity, refill rate, cost>>,
\* capacity in tokens, rate in tokens per second, cost in tokens.
get_limits_for_operation(op) ==
    CASE op.kind = "DynamoDbQuery" ->
            <<limits.dynamodb_queries_per_sec, limits.dynamodb_queries_per_sec, 1>>
      [] op.kind = "DynamoDbRead" ->
            <<limits.dynamodb_read_units, limits.dynamodb_read_units, op.n>>
      [] op.kind = "DynamoDbWrite" ->
            <<limits.dynamodb_write_units, limits.dynamodb_write_units, op.n>>
      [] op.kind = "S3Get" ->
            <<limits.s3_get_requests_per_sec, limits.s3_get_requests_per_sec, 1>>
      [] op.kind = "S3Put" ->
            <<limits.s3_put_requests_per_sec, limits.s3_put_requests_per_sec, 1>>
      [] op.kind = "S3List" ->
            <<limits.s3_list_requests_per_sec, limits.s3_list_requests_per_sec, 1>>
      [] op.kind = "EventBridgePutEvents" ->
            <<limits.eventbridge_put_events_per_sec,
              limits.eventbridge_put_events_per_sec,
              Min(op.n, limits.eventbridge_events_batch_size)>>
      [] op.kind = "SecretsManagerGet" ->
            <<limits.secrets_manager_requests_per_sec,
              limits.secrets_manager_requests_per_sec, 1>>
      [] op.kind = "GenericAwsApi" ->
            <<limits.aws_api_calls_per_sec, limits.aws_api_calls_per_sec, 1>>

\* struct RateLimitBucket.  tokens is an f64 in the source; the model keeps it
\* exactly, as a count of 1/TicksPerSecond token, so that a refill over a whole
\* number of ticks is an integer.  capacity and refill_rate are in tokens and
\* tokens per second as in the source.
\* RateLimitBucket::new: created full, last_refill = Instant::now().
RateLimitBucket_new(capacity, refill_rate, t) ==
    [ tokens      |-> capacity * TicksPerSecond,
      last_refill |-> t,
      capacity    |-> capacity,
      refill_rate |-> refill_rate ]

\* refill as a bug would have it: the sum is not capped at capacity
refill_uncapped(b, t) ==
    [b EXCEPT !.tokens = b.tokens + (t - b.last_refill) * b.refill_rate,
              !.last_refill = t]

\* RateLimitBucket::refill at time t:
\*   tokens = (tokens + elapsed * refill_rate).min(capacity); last_refill = now
\* elapsed seconds = (t - last_refill) / TicksPerSecond, so in token units of
\* 1/TicksPerSecond the amount added is (t - last_refill) * refill_rate.
refill(b, t) ==
    LET elapsed == t - b.last_refill
        tokens_to_add == elapsed * b.refill_rate
    IN  [b EXCEPT !.tokens = Min(b.tokens + tokens_to_add, b.capacity * TicksPerSecond),
                  !.last_refill = t]

\* try_consume as a bug would have it: a denied charge leaves the bucket as it
\* was before the refill
try_consume_denied_untouched(b, cost, t) ==
    LET r == refill(b, t)
    IN  IF r.tokens >= cost * TicksPerSecond
        THEN [bucket |-> [r EXCEPT !.tokens = r.tokens - cost * TicksPerSecond],
              allowed |-> TRUE]
        ELSE [bucket |-> b, allowed |-> FALSE]

\* RateLimitBucket::try_consume(cost) at time t: the bucket afterwards and the
\* returned bool.
try_consume(b, cost, t) ==
    LET r == refill(b, t)
    IN  IF r.tokens >= cost * TicksPerSecond
        THEN [bucket |-> [r EXCEPT !.tokens = r.tokens - cost * TicksPerSecond],
              allowed |-> TRUE]
        ELSE [bucket |-> r, allowed |-> FALSE]

\* The key as a bug would have it: one bucket per service, shared by all tenants
bucket_key_per_service(tenant_id, op) == "shared:" \o service_key(op)

\* format!("{}:{}", tenant_id, operation.service_key())
bucket_key(tenant_id, op) == tenant_id \o ":" \o service_key(op)

\* AwsRateLimiter::check_aws_operation under the buckets write lock: the table
\* afterwards and the returned bool.
check_aws_operation(bks, tenant_id, op, t) ==
    LET key == bucket_key(tenant_id, op)
        lim == get_limits_for_operation(op)
        bucket == IF key \in DOMAIN bks
                  THEN bks[key]
                  ELSE RateLimitBucket_new(lim[1], lim[2], t)
        res == try_consume(bucket, lim[3], t)
    IN  [ buckets |-> [k \in DOMAIN bks \cup {key} |->
                          IF k = key THEN res.bucket ELSE bks[k]],
          allowed |-> res.allowed ]

\* The latest direct limiter call, and the tenant, operation kind and result
\* of the one before it
NoCharge == [tenant |-> None, op |-> Op(None, 0), allowed |-> FALSE,
             prev_tenant |-> None, prev_kind |-> None, prev_allowed |-> FALSE]

(***************************************************************************)
(* tenant.rs                                                               *)
(***************************************************************************)

\* More bounds.  ResourceLimits::default() sets requests_per_minute to 100 and
\* max_concurrent_requests to 10 (tenant.rs:119-120); the model scales both
\* down so that a burst larger than the limit fits in NumCalls overlapping
\* calls or MaxRecords records.
RequestsPerMinute == 1
MaxConcurrentRequests == 1
\* Overlapping handle_request calls in Spec.
NumCalls == 2
\* Records read by the stdio loop in SpecRun.
MaxRecords == 2
\* Sleeps of check_interval (50 ms) that fit in max_wait (5 s): 100 in
\* mcp.rs:163-165, scaled down.
MaxWaitIntervals == 2

Tenants == {"demo-tenant", "t2"}
Users == {"user-demo-123", "u2"}

\* impl Default for ResourceLimits (the fields the request path reads)
ResourceLimits_default ==
    [ requests_per_minute     |-> RequestsPerMinute,
      max_concurrent_requests |-> MaxConcurrentRequests ]

\* The demo tenant TenantManager::new inserts when DEV_MODE = "true"
demo_context ==
    [ tenant_id       |-> "demo-tenant",
      user_id         |-> "user-demo-123",
      context_type    |-> [kind |-> "Organization", org_id |-> "org-demo-456"],
      role            |-> "Admin",
      permissions     |-> {"ReadKV", "WriteKV", "DeleteKV", "ListArtifacts",
                           "GetArtifacts", "PutArtifacts", "SendEvents",
                           "ExecuteWorkflows"},
      resource_limits |-> ResourceLimits_default ]

\* The context validate_tenant_access builds for an unknown tenant
auto_context(tenant_id, user_id) ==
    [ tenant_id       |-> tenant_id,
      user_id         |-> user_id,
      context_type    |-> [kind |-> "Organization", org_id |-> tenant_id],
      role            |-> "Admin",
      permissions     |-> {"Admin"},
      resource_limits |-> ResourceLimits_default ]

\* TenantManager::new: tenant_configs
TenantManager_new(e) ==
    IF e.DEV_MODE THEN [t \in {"demo-tenant"} |-> demo_context] ELSE <<>>

\* TenantSession::new: both counters start at 0
TenantSession_new(context, t) ==
    [ context         |-> context,
      last_activity   |-> t,
      request_count   |-> 0,
      active_requests |-> 0 ]

\* TenantSession::increment_request_count: fetch_add(1) on an AtomicU32 (it
\* wraps at 2^32, which no session reaches: a session serves one request)
increment_request_count(s) ==
    [s EXCEPT !.request_count = s.request_count + 1]

\* The increment as a bug would have it: counted once by process_request and
\* once more by the guard
increment_active_requests_twice(s) ==
    [s EXCEPT !.active_requests = s.active_requests + 2]

\* TenantSession::increment_active_requests: fetch_add(1) on an AtomicU32
increment_active_requests(s) ==
    [s EXCEPT !.active_requests = s.active_requests + 1]

\* TenantSession::decrement_active_requests: fetch_update, unchanged at 0
decrement_active_requests(s) ==
    IF s.active_requests > 0
    THEN [s EXCEPT !.active_requests = s.active_requests - 1]
    ELSE s

\* TenantSession::check_rate_limit
check_rate_limit(s) ==
    /\ s.request_count < s.context.resource_limits.requests_per_minute
    /\ s.active_requests < s.context.resource_limits.max_concurrent_requests

\* TenantSession::has_permission
has_permission(s, permission) ==
    \/ s.context.role = "Admin"
    \/ permission \in s.context.permissions

\* MCPServer::get_total_active_requests over TenantManager::get_all_sessions
RECURSIVE SumActive(_)
SumActive(ss) ==
    IF ss = <<>> THEN 0
    ELSE ss[1].active_requests + SumActive(Tail(ss))

get_total_active_requests == SumActive(sessions)

(***************************************************************************)
(* handlers.rs: the handler table                                          *)
(***************************************************************************)

\* HandlerRegistry::new: tool name -> Handler::required_permission
handlers ==
    [ kv_get                 |-> "ReadKV",
      kv_set                 |-> "WriteKV",
      artifacts_get          |-> "GetArtifacts",
      artifacts_put          |-> "PutArtifacts",
      artifacts_list         |-> "ListArtifacts",
      events_send            |-> "SendEvents",
      events_query           |-> "SendEvents",
      events_analytics       |-> "SendEvents",
      events_create_rule     |-> "WriteKV",
      events_create_alert    |-> "WriteKV",
      events_health_check    |-> "ReadKV",
      integration_register   |-> "Admin",
      integration_connect    |-> "Write",
      integration_list       |-> "Read",
      integration_disconnect |-> "Write",
      integration_test       |-> "Read",
      mcp_proxy              |-> "Execute",
      mcp_list_tools         |-> "Read" ]

\* list_tools as a bug would have it: every registered tool is listed
list_tools_unfiltered(s) == DOMAIN handlers

\* HandlerRegistry::list_tools: the names of the schemas returned
list_tools(s) ==
    { name \in DOMAIN handlers : has_permission(s, handlers[name]) }

\* HandlerRegistry::handle_tool_call up to the call of Handler::handle:
\* "NotFound", "PermissionDenied" or "run" (the handler is invoked)
handle_tool_call(s, tool_name) ==
    IF tool_name \notin DOMAIN handlers THEN "NotFound"
    ELSE IF ~has_permission(s, handlers[tool_name]) THEN "PermissionDenied"
    ELSE "run"


(***************************************************************************)
(* registry.rs: MCPServerRegistry, and the key-value table of aws.rs.      *)
(* A call is a function from the tables it works on to the tables it can   *)
(* leave at its next suspension point; a call that needs a lock that is    *)
(* taken has no next tables.                                               *)
(***************************************************************************)

\* Registry calls made in SpecRegistry, and children started.
MaxRegistryOps == 3
MaxChildren == 2

\* The tasks that call handlers (one per handle_request call in progress)
Calls == 1 .. NumCalls

\* TenantContext::get_context_id values and service ids; the second of each
\* contains the separator of the table key
RegContexts == {"org-a", "org-a-s1"}
ServerIds == {"s1", "s1-s1"}
ToolNames == {"t1"}

\* format!("{}-{}", tenant_id, server_id)
reg_key(tenant_id, server_id) == tenant_id \o "-" \o server_id

RegKeys == { reg_key(t, i) : t \in RegContexts, i \in ServerIds }

\* AuthMethod::None
NoAuth == [kind |-> "None", key_field |-> None]

\* struct MCPServerConfig.  IntegrationRegisterHandler builds it with
\* deployment Docker when docker_config is given and Process otherwise,
\* server_type Stdio by default and health_check_interval_secs 60; a caller of
\* register_server can also give DeploymentConfig::Lambda
MCPServerConfig(id, server_type, deployment, has_ports) ==
    [ id |-> id, server_type |-> server_type, deployment |-> deployment,
      has_ports |-> has_ports, auth_method |-> NoAuth,
      health_check_interval_secs |-> 60 ]

\* The configurations registered: a process under either id, the second with
\* an API key to look up, a container, a Lambda function and a server that is
\* not Stdio
RegConfigs ==
    { MCPServerConfig("s1", "Stdio", "Process", FALSE),
      [MCPServerConfig("s1-s1", "Stdio", "Process", FALSE) EXCEPT
          !.auth_method = [kind |-> "ApiKey", key_field |-> "API_TOKEN"]],
      MCPServerConfig("s1", "Stdio", "Docker", TRUE),
      MCPServerConfig("s1-s1", "Stdio", "Lambda", FALSE),
      MCPServerConfig("s1", "Http", "Process", FALSE) }

\* The MCPServerConnection register_server inserts.  process and container_id
\* are handles into procs, 0 for None; reason is the string of Failed(reason)
MCPServerConnection_new(config, t) ==
    [ config |-> config, process |-> 0, container_id |-> 0, endpoint |-> None,
      status |-> "Disconnected", reason |-> None, last_health_check |-> t,
      tools |-> <<>> ]

\* HashMap::insert
insert(m, k, v) ==
    [ j \in DOMAIN m \cup {k} |-> IF j = k THEN v ELSE m[j] ]

\* str::starts_with
starts_with(s, prefix) ==
    Len(prefix) <= Len(s) /\ SubSeq(s, 1, Len(prefix)) = prefix

\* AwsService::kv_get_direct when get_item succeeds: the value of the item,
\* None without one
kv_get_direct(kv, key) == IF key \in DOMAIN kv THEN kv[key] ELSE None

\* AwsService::kv_set_direct when put_item succeeds
kv_set_direct(kv, key, value) == insert(kv, key, value)

\* AwsService::kv_delete when delete_item succeeds
kv_delete(kv, key) == [ j \in DOMAIN kv \ {key} |-> kv[j] ]

\* AwsService::kv_list when scan succeeds
kv_list(kv, prefix) == { key \in DOMAIN kv : starts_with(key, prefix) }

\* The key of store_server_config:
\* format!("mcp-registry-{}-{}", tenant_id, config.id)
registry_key(tenant_id, id) == "mcp-registry-" \o tenant_id \o "-" \o id

\* The key get_credential looks up:
\* format!("mcp-credential-{}-{}-{}", tenant_id, server_id, credential_name)
credential_key(tenant_id, server_id, credential_name) ==
    "mcp-credential-" \o tenant_id \o "-" \o server_id \o "-" \o credential_name

\* The credential names connect_server asks get_credential for, in the order
\* of the calls
CredentialLookups(auth_method) ==
    CASE auth_method.kind = "ApiKey" -> <<"api_key">>
      [] auth_method.kind = "OAuth2" -> <<"client_id", "client_secret">>
      [] OTHER -> <<>>

\* HandlerRegistry::new creates the registry with an empty table.
\*   call[k]  the registry call task k is in: op and arguments, pc (what it
\*            does next), config and at (the connection register_server has
\*            built), todo and found (the credentials connect_server has to
\*            look up and has got), taken (the child disconnect_server took
\*            out of the entry); with op None, returned, key, result,
\*            forwarded and listed are the latest call of k and what it
\*            returned
\*   lock     the RwLock of the table
\*   last     the latest call that returned to a direct caller of the
\*            registry (observation only)
NoConfig == MCPServerConfig(None, None, None, FALSE)
NoCall == [op |-> None, key |-> None, tenant_id |-> None, server_id |-> None,
           pc |-> None, config |-> NoConfig, at |-> 0, tool_name |-> None,
           todo |-> <<>>, found |-> <<>>, taken |-> 0, returned |-> None,
           result |-> None, forwarded |-> FALSE, listed |-> {}]
NoResult == [op |-> None, key |-> None, result |-> None, forwarded |-> FALSE,
             listed |-> {}]
InitReg ==
    [ lock |-> "free", call |-> [k \in Calls |-> NoCall], last |-> NoResult,
      ops |-> 0, stdin_closed |-> FALSE, exited |-> FALSE ]

\* The call of task k returns: the task is in no call any more and has what
\* the call returned
Returns(w, k, op, key, result, forwarded, listed) ==
    [w EXCEPT
        !.reg.call[k] = [NoCall EXCEPT
                            !.returned = op, !.key = key, !.result = result,
                            !.forwarded = forwarded, !.listed = listed,
                            !.found = IF w.reg.call[k].op = op
                                      THEN w.reg.call[k].found ELSE <<>>]]

\* register_server as a bug would have it: the entry starts as Connecting
register_server_connecting(table, tenant_id, config, t) ==
    [ k \in DOMAIN table \cup {reg_key(tenant_id, config.id)} |->
        IF k = reg_key(tenant_id, config.id)
        THEN [MCPServerConnection_new(config, t) EXCEPT !.status = "Connecting"]
        ELSE table[k] ]

\* register_server after store_server_config succeeded: servers.insert(key,
\* connection), which replaces an entry already stored under the key
register_server(table, tenant_id, config, t) ==
    [ k \in DOMAIN table \cup {reg_key(tenant_id, config.id)} |->
        IF k = reg_key(tenant_id, config.id)
        THEN MCPServerConnection_new(config, t)
        ELSE table[k] ]

\* registry.register_server(tenant_id, config) up to servers.write().await:
\* store_server_config puts the configuration into the key-value table, or
\* fails and the call returns StorageError; then the connection is built
RegisterServer(w, k, tenant_id, config) ==
    LET key == reg_key(tenant_id, config.id)
    IN  { [w EXCEPT
              !.kv = kv_set_direct(@, registry_key(tenant_id, config.id),
                                   "config " \o config.id),
              !.reg.call[k] = [NoCall EXCEPT
                                  !.op = "register", !.key = key,
                                  !.tenant_id = tenant_id,
                                  !.server_id = config.id, !.pc = "insert",
                                  !.config = config, !.at = now]],
          Returns(w, k, "register", key, "StorageError", FALSE, {}) }

\* register_server from servers.write().await on: the insert under the write
\* lock
RegisterServerStep(w, k) ==
    LET call == w.reg.call[k]
    IN  IF w.reg.lock # "free" THEN {}
        ELSE { [Returns(w, k, "register", call.key, "Ok", FALSE, {}) EXCEPT
                   !.servers = register_server(w.servers, call.tenant_id,
                                               call.config, call.at)] }

\* The call connect_server begins
ConnectCall(key, tenant_id, server_id, auth_method) ==
    [NoCall EXCEPT
        !.op = "connect", !.key = key, !.tenant_id = tenant_id,
        !.server_id = server_id, !.todo = CredentialLookups(auth_method),
        !.pc = IF CredentialLookups(auth_method) = <<>> THEN "start"
               ELSE "credential"]

\* connect_server as a bug would have it: an entry that is Failed is refused
ConnectServer_refuses_failed(w, k, tenant_id, server_id) ==
    LET key == reg_key(tenant_id, server_id)
    IN  IF w.reg.lock # "free" THEN {}
        ELSE IF key \notin DOMAIN w.servers
        THEN { Returns(w, k, "connect", key, "ServerNotFound", FALSE, {}) }
        ELSE IF w.servers[key].config.server_type # "Stdio"
        THEN { Returns(w, k, "connect", key, "UnsupportedServerType", FALSE, {}) }
        ELSE IF w.servers[key].status = "Failed"
        THEN { Returns(w, k, "connect", key, "ConnectionFailed", FALSE, {}) }
        ELSE { [w EXCEPT
                   !.servers[key].status = "Connecting",
                   !.reg.lock = "write",
                   !.reg.call[k] = ConnectCall(key, tenant_id, server_id,
                                      w.servers[key].config.auth_method)] }

\* registry.connect_server(tenant_id, server_id, credentials) up to its first
\* suspension point: the write lock is taken and kept, the entry is looked up,
\* its server_type is tested and its status becomes Connecting.  (What the
\* credentials given contribute to the environment of the child is the subject
\* of SpecEnv.)
ConnectServer(w, k, tenant_id, server_id) ==
    LET key == reg_key(tenant_id, server_id)
    IN  IF w.reg.lock # "free" THEN {}
        ELSE IF key \notin DOMAIN w.servers
        THEN { Returns(w, k, "connect", key, "ServerNotFound", FALSE, {}) }
        ELSE IF w.servers[key].config.server_type # "Stdio"
        THEN { Returns(w, k, "connect", key, "UnsupportedServerType", FALSE, {}) }
        ELSE { [w EXCEPT
                   !.servers[key].status = "Connecting",
                   !.reg.lock = "write",
                   !.reg.call[k] = ConnectCall(key, tenant_id, server_id,
                                      w.servers[key].config.auth_method)] }

\* get_credential for the first name of todo: kv_get_direct under
\* credential_key; an error of the table counts as no credential
LookupCredential(w, k) ==
    LET call == w.reg.call[k]
        name == Head(call.todo)
        stored == kv_get_direct(w.kv, credential_key(call.tenant_id,
                                                     call.server_id, name))
    IN  { [w EXCEPT
              !.reg.call[k].found = insert(@, name, v),
              !.reg.call[k].todo = Tail(@),
              !.reg.call[k].pc = IF Len(call.todo) = 1 THEN "start"
                                 ELSE "credential"] : v \in {stored, None} }

\* cmd.spawn() or docker run succeeded: the handle is recorded in the entry,
\* over the handle the entry had (connection.process = Some(child),
\* connection.container_id = Some(container_id)), and the entry becomes
\* Connected.  A Child that is overwritten is dropped, which does not end the
\* process (kill_on_drop is not set).
ChildStarted(w, k) ==
    LET key == w.reg.call[k].key
        conn == w.servers[key]
        handle == Len(w.procs) + 1
    IN  IF conn.config.deployment = "Docker"
        THEN [w EXCEPT
                 !.procs = Append(@, [kind |-> "container", state |-> "running"]),
                 !.servers[key].container_id = handle,
                 !.servers[key].status = "Connected",
                 !.servers[key].endpoint =
                     IF conn.config.has_ports THEN "http" ELSE @,
                 !.reg.call[k].pc = "initialize"]
        ELSE [w EXCEPT
                 !.procs = Append(@, [kind |-> "process", state |-> "running"]),
                 !.servers[key].process = handle,
                 !.servers[key].status = "Connected",
                 !.reg.call[k].pc = "initialize"]

\* The start of a child fails: cmd.spawn() returns Err, or docker run cannot
\* be executed or ends unsuccessfully.  The entry becomes Failed(reason) with
\* its other fields as they are, and the call returns ConnectionFailed, which
\* drops the write guard.
StartFailed(w, k) ==
    LET key == w.reg.call[k].key
    IN  [Returns(w, k, "connect", key, "ConnectionFailed", FALSE, {})
            EXCEPT !.servers[key].status = "Failed",
                   !.servers[key].reason = "start failed",
                   !.reg.lock = "free"]

\* DeploymentConfig::Lambda: the endpoint is stored and the entry becomes
\* Connected; no child is started and nothing can fail
LambdaConnected(w, k) ==
    LET key == w.reg.call[k].key
    IN  [w EXCEPT !.servers[key].endpoint = "lambda",
                  !.servers[key].status = "Connected",
                  !.reg.call[k].pc = "initialize"]

\* initialize_mcp_connection (servers.read().await) and fetch_server_tools
\* (servers.write().await), called while the write guard of connect_server is
\* alive
ConnectServerTail(w, k) ==
    LET call == w.reg.call[k]
        key == call.key
    IN  IF w.reg.lock # "free" THEN {}
        ELSE IF call.pc = "initialize"
        THEN { [w EXCEPT !.reg.call[k].pc = "fetch"] }
        ELSE { [Returns(w, k, "connect", key, "Ok", FALSE, {}) EXCEPT
                   !.servers[key].tools =
                       IF w.servers[key].process # 0 THEN <<>> ELSE @] }

\* connect_server from its first suspension point on.  At "credential" one
\* credential of the auth method is looked up.  At "start" the deployment
\* decides: Lambda stores its endpoint; cmd.spawn() or docker run either
\* fails or succeeds (the children started are counted up to MaxChildren).
\* After a success the call awaits initialize_mcp_connection and then
\* fetch_server_tools.
ConnectServerStep(w, k) ==
    LET call == w.reg.call[k]
        key == call.key
    IN  IF call.pc = "credential" THEN LookupCredential(w, k)
        ELSE IF call.pc = "start"
        THEN IF w.servers[key].config.deployment = "Lambda"
             THEN { LambdaConnected(w, k) }
             ELSE (IF Len(w.procs) < MaxChildren THEN { ChildStarted(w, k) }
                   ELSE {})
                  \cup { StartFailed(w, k) }
        ELSE ConnectServerTail(w, k)

\* The awaits of connect_server under its write guard at which the call of
\* task k is suspended: get_credential, docker_cmd.output() (cmd.spawn() of a
\* Process deployment does not suspend), initialize_mcp_connection and
\* fetch_server_tools
ConnectServerSuspended(w, k) ==
    LET call == w.reg.call[k]
    IN  \/ call.pc \in {"credential", "initialize", "fetch"}
        \/ /\ call.pc = "start"
           /\ w.servers[call.key].config.deployment = "Docker"

\* The caller of connect_server drops the future of a call that is suspended
\* (a timeout around the call, or the task of the caller ended): the write
\* guard of the call is dropped with it and the entry stays as the call left
\* it, Connecting before the start and Connected after it.  docker run, once
\* spawned by output(), goes on without the call: the container it starts is
\* recorded nowhere.  The caller has no result of the call; "Cancelled"
\* stands for that.
ConnectServerCancelled(w, k) ==
    LET given_up == [Returns(w, k, "connect", w.reg.call[k].key, "Cancelled",
                             FALSE, {}) EXCEPT !.reg.lock = "free"]
    IN  IF w.reg.call[k].pc = "start" /\ Len(w.procs) < MaxChildren
        THEN { given_up,
               [given_up EXCEPT
                   !.procs = Append(@, [kind |-> "container",
                                        state |-> "running"])] }
        ELSE { given_up }

\* process.kill() on the child with handle h (0 for no child): a running child
\* is killed
kill(children, h) ==
    [ j \in DOMAIN children |->
        IF j = h /\ children[j].state = "running"
        THEN [children[j] EXCEPT !.state = "killed"]
        ELSE children[j] ]

\* docker stop on the container with handle h; stop_ok is its outcome
docker_stop(children, h, stop_ok) ==
    [ j \in DOMAIN children |->
        IF j = h /\ stop_ok /\ children[j].state = "running"
        THEN [children[j] EXCEPT !.state = "stopped"]
        ELSE children[j] ]

\* disconnect_server as a bug would have it: an entry with nothing to stop is
\* marked Failed
disconnect_server_marks_failed(table, children, key, stop_ok) ==
    IF key \notin DOMAIN table
    THEN [servers |-> table, procs |-> children]
    ELSE [ servers |-> [table EXCEPT
              ![key].process = 0, ![key].container_id = 0,
              ![key].status = IF table[key].process = 0 /\ table[key].container_id = 0
                              THEN "Failed" ELSE "Disconnected",
              ![key].reason = None, ![key].endpoint = None, ![key].tools = <<>>],
           procs |-> docker_stop(kill(children, table[key].process),
                                 table[key].container_id, stop_ok) ]

\* disconnect_server run from servers.write().await to its end: the table and
\* the children afterwards.  process.take() and kill; docker stop (stop_ok is
\* its outcome) and container_id = None; status, endpoint and tools are reset.
\* A key without entry changes nothing.
disconnect_server(table, children, key, stop_ok) ==
    IF key \notin DOMAIN table
    THEN [servers |-> table, procs |-> children]
    ELSE [ servers |-> [table EXCEPT
              ![key].process = 0, ![key].container_id = 0,
              ![key].status = "Disconnected", ![key].reason = None,
              ![key].endpoint = None, ![key].tools = <<>>],
           procs |-> docker_stop(kill(children, table[key].process),
                                 table[key].container_id, stop_ok) ]

\* registry.disconnect_server(tenant_id, server_id) up to its first suspension
\* point under the write lock.  An entry that holds a child process has it
\* taken out (process.take()) and the call awaits process.kill(); an entry
\* that holds a container only awaits docker stop; both keep the write guard.
\* Without entry, or with an entry that holds neither, the call runs to its
\* end and returns Ok(()).
DisconnectServer(w, k, tenant_id, server_id) ==
    LET key == reg_key(tenant_id, server_id)
        begun == [NoCall EXCEPT !.op = "disconnect", !.key = key,
                                !.tenant_id = tenant_id, !.server_id = server_id]
        res == disconnect_server(w.servers, w.procs, key, TRUE)
    IN  IF w.reg.lock # "free" THEN {}
        ELSE IF key \in DOMAIN w.servers /\ w.servers[key].process # 0
        THEN { [w EXCEPT
                   !.servers[key].process = 0,
                   !.reg.lock = "write",
                   !.reg.call[k] = [begun EXCEPT
                                       !.pc = "kill",
                                       !.taken = w.servers[key].process]] }
        ELSE IF key \in DOMAIN w.servers /\ w.servers[key].container_id # 0
        THEN { [w EXCEPT !.reg.lock = "write",
                         !.reg.call[k] = [begun EXCEPT !.pc = "stop"]] }
        ELSE { [Returns(w, k, "disconnect", key, "Ok", FALSE, {}) EXCEPT
                   !.servers = res.servers, !.procs = res.procs] }

\* disconnect_server from its first suspension point on, the write guard
\* alive: at "kill" the child ends, at "killed" the call goes on to the
\* container or to its end, at "stop" docker stop ends, at "stopped" the call
\* clears container_id and runs to its end, where the guard is dropped
DisconnectServerStep(w, k) ==
    LET call == w.reg.call[k]
        key == call.key
        conn == w.servers[key]
        finished == [Returns(w, k, "disconnect", key, "Ok", FALSE, {}) EXCEPT
                   !.servers = disconnect_server(w.servers, <<>>, key, TRUE).servers,
                   !.reg.lock = "free"]
    IN  IF call.pc = "kill"
        THEN { [w EXCEPT !.procs = kill(@, call.taken),
                         !.reg.call[k].pc = "killed"] }
        ELSE IF call.pc = "killed"
        THEN IF conn.container_id # 0
             THEN { [w EXCEPT !.reg.call[k].pc = "stop"] }
             ELSE { finished }
        ELSE IF call.pc = "stop"
        THEN { [w EXCEPT !.procs = docker_stop(@, conn.container_id, stop_ok),
                         !.reg.call[k].pc = "stopped"] : stop_ok \in BOOLEAN }
        ELSE { finished }

\* The awaits of disconnect_server under its write guard: process.kill() and
\* docker stop
DisconnectServerSuspended(w, k) == w.reg.call[k].pc \in {"kill", "stop"}

\* The caller of disconnect_server drops the future of a suspended call: the
\* write guard is dropped and the entry keeps its status.  At process.kill()
\* the handle is already taken out of the entry and the signal is sent, so
\* the child ends; at docker stop the command is spawned and goes on without
\* the call (stop_ok is its outcome), and container_id is not cleared.
DisconnectServerCancelled(w, k) ==
    LET call == w.reg.call[k]
        given_up == [Returns(w, k, "disconnect", call.key, "Cancelled",
                             FALSE, {}) EXCEPT !.reg.lock = "free"]
    IN  IF call.pc = "kill"
        THEN { [given_up EXCEPT !.procs = kill(@, call.taken)] }
        ELSE { [given_up EXCEPT
                   !.procs = docker_stop(@, w.servers[call.key].container_id,
                                         stop_ok)] : stop_ok \in BOOLEAN }

\* execute_tool as a bug would have it: the status of the entry is not tested
execute_tool_any_status(table, key, tool_name) ==
    IF key \notin DOMAIN table THEN "ServerNotFound"
    ELSE IF \A i \in DOMAIN table[key].tools : table[key].tools[i] # tool_name
    THEN "ToolNotFound"
    ELSE IF table[key].process # 0 THEN "Ok"
    ELSE "ServerNotConnected"

\* execute_tool under the read lock: "Ok" when the call is forwarded to the
\* child (execute_stdio_tool), the RegistryError otherwise
execute_tool(table, key, tool_name) ==
    IF key \notin DOMAIN table THEN "ServerNotFound"
    ELSE IF table[key].status # "Connected" THEN "ServerNotConnected"
    ELSE IF \A i \in DOMAIN table[key].tools : table[key].tools[i] # tool_name
    THEN "ToolNotFound"
    ELSE IF table[key].process # 0 THEN "Ok"
    ELSE "ServerNotConnected"

\* registry.execute_tool(tenant_id, server_id, tool_name, arguments).  The
\* three error returns await nothing under the read lock.  The forwarding
\* branch awaits execute_stdio_tool under it, which assigns nothing to the
\* table; it is taken as one step with the return (no reachable entry has a
\* cached tool, so the branch is met only through the operator execute_tool).
ExecuteTool(w, k, tenant_id, server_id, tool_name) ==
    LET key == reg_key(tenant_id, server_id)
        result == execute_tool(w.servers, key, tool_name)
    IN  IF w.reg.lock # "free" THEN {}
        ELSE { Returns(w, k, "execute", key, result, result = "Ok", {}) }

\* format!("{:?}", connection.status)
status_debug(conn) ==
    IF conn.status = "Failed"
    THEN "Failed(\"" \o conn.reason \o "\")"
    ELSE conn.status

\* struct MCPServerInfo as list_servers fills it
MCPServerInfo(conn) ==
    [ id |-> conn.config.id, status |-> status_debug(conn),
      tool_count |-> Len(conn.tools) ]

\* list_servers under the read lock: the MCPServerInfo of every entry whose key
\* starts with tenant_id followed by "-" (the table is a HashMap, the order of
\* the result is not determined)
list_servers(table, tenant_id) ==
    { MCPServerInfo(table[k]) :
        k \in { key \in DOMAIN table : starts_with(key, tenant_id \o "-") } }

\* registry.list_servers(tenant_id): always Ok(result)
ListServers(w, k, tenant_id) ==
    IF w.reg.lock # "free" THEN {}
    ELSE { Returns(w, k, "list", tenant_id, "Ok", FALSE,
                   list_servers(w.servers, tenant_id)) }

\* Tool names given to mcp_proxy: a plain one and one prefixed with a server id
ProxyToolNames == {"t1", "s1.t1"}

\* str::find('.'): the position of the first '.', 0 for None
find_dot(s) ==
    IF \E i \in 1 .. Len(s) : SubSeq(s, i, i) = "."
    THEN CHOOSE i \in 1 .. Len(s) :
            /\ SubSeq(s, i, i) = "."
            /\ \A j \in 1 .. i - 1 : SubSeq(s, j, j) # "."
    ELSE 0

\* MCPProxyHandler::find_server_for_tool: the server ids it can return, None
\* standing for Err(Internal("No server found for tool")).  A name with a '.'
\* gives the text before it.  Otherwise the loop over list_servers returns the
\* id of the first element in its first iteration; the order of the list is
\* that of the HashMap, so any listed server can be the first.
find_server_for_tool(table, tenant_id, tool_name) ==
    IF find_dot(tool_name) # 0
    THEN { SubSeq(tool_name, 1, find_dot(tool_name) - 1) }
    ELSE IF list_servers(table, tenant_id) = {}
    THEN { None }
    ELSE { server.id : server \in list_servers(table, tenant_id) }

\* MCPProxyHandler::handle up to registry.execute_tool: find_server_for_tool,
\* which reads the table under the read lock of list_servers unless the tool
\* name has a '.'
MCPProxy(w, k, tenant_id, tool_name) ==
    IF find_dot(tool_name) = 0 /\ w.reg.lock # "free" THEN {}
    ELSE { IF server_id = None
           THEN Returns(w, k, "proxy", tenant_id, "NoServerFound", FALSE, {})
           ELSE [w EXCEPT
                    !.reg.call[k] = [NoCall EXCEPT
                        !.op = "proxy", !.pc = "execute",
                        !.key = reg_key(tenant_id, server_id),
                        !.tenant_id = tenant_id, !.server_id = server_id,
                        !.tool_name = tool_name]]
           : server_id \in find_server_for_tool(w.servers, tenant_id, tool_name) }

\* MCPProxyHandler::handle from registry.execute_tool on: the tool is executed
\* on the server found, under a read lock of its own, with the tool name as it
\* was given
MCPProxyStep(w, k) ==
    LET call == w.reg.call[k]
        result == execute_tool(w.servers, call.key, call.tool_name)
    IN  IF w.reg.lock # "free" THEN {}
        ELSE { Returns(w, k, "proxy", call.key, result, result = "Ok", {}) }

\* process.try_wait() on handle h: "exited", "running"
try_wait(children, h) ==
    IF children[h].state = "running" THEN "running" ELSE "exited"

\* health_check as a bug would have it: the handle of an exited child is kept
health_check_entry_keeps_handle(conn, wait, t) ==
    IF conn.status # "Connected" THEN conn
    ELSE IF (t - conn.last_health_check) \div TicksPerSecond
               < conn.config.health_check_interval_secs
    THEN conn
    ELSE IF conn.process = 0 THEN conn
    ELSE IF wait = "exited"
    THEN [conn EXCEPT !.status = "Failed", !.reason = "Process exited"]
    ELSE IF wait = "running" THEN [conn EXCEPT !.last_health_check = t]
    ELSE conn

\* health_check, the body of its loop for one entry at time t; wait is what
\* process.try_wait() gives: "exited" (Ok(Some)), "running" (Ok(None)) or
\* "error" (Err)
health_check_entry(conn, wait, t) ==
    IF conn.status # "Connected" THEN conn
    ELSE IF (t - conn.last_health_check) \div TicksPerSecond
               < conn.config.health_check_interval_secs
    THEN conn
    ELSE IF conn.process = 0 THEN conn
    ELSE IF wait = "exited"
    THEN [conn EXCEPT !.status = "Failed", !.reason = "Process exited",
                      !.process = 0]
    ELSE IF wait = "running" THEN [conn EXCEPT !.last_health_check = t]
    ELSE conn

\* registry.health_check(): every entry, under the write lock
HealthCheck(w, k) ==
    IF w.reg.lock # "free" THEN {}
    ELSE { [Returns(w, k, "health_check", None, "Ok", FALSE, {}) EXCEPT
               !.servers =
                   [ key \in DOMAIN w.servers |->
                       health_check_entry(w.servers[key],
                          IF w.servers[key].process # 0
                          THEN try_wait(w.procs, w.servers[key].process)
                          ELSE "error",
                          now) ]] }

\* The call task k is in goes on to its next suspension point or returns
RegistryStep(w, k) ==
    CASE w.reg.call[k].op = "register"   -> RegisterServerStep(w, k)
      [] w.reg.call[k].op = "connect"    -> ConnectServerStep(w, k)
      [] w.reg.call[k].op = "disconnect" -> DisconnectServerStep(w, k)
      [] w.reg.call[k].op = "proxy"      -> MCPProxyStep(w, k)
      [] OTHER                           -> {}

\* The call task k is in is suspended at an await, where its future can be
\* dropped.  register_server awaits store_server_config and then the write
\* lock; mcp_proxy awaits the read lock of execute_tool while the lock is taken.
RegistrySuspended(w, k) ==
    CASE w.reg.call[k].op = "register"   -> TRUE
      [] w.reg.call[k].op = "connect"    -> ConnectServerSuspended(w, k)
      [] w.reg.call[k].op = "disconnect" -> DisconnectServerSuspended(w, k)
      [] w.reg.call[k].op = "proxy"      -> w.reg.lock # "free"
      [] OTHER                           -> FALSE

\* The future of the suspended call of task k is dropped.  register_server
\* and mcp_proxy hold no guard at their awaits and leave what they have done
\* so far (the configuration stored by store_server_config).
RegistryCancelled(w, k) ==
    LET call == w.reg.call[k]
    IN  CASE call.op = "connect"    -> ConnectServerCancelled(w, k)
          [] call.op = "disconnect" -> DisconnectServerCancelled(w, k)
          [] OTHER -> { Returns(w, k, call.op, call.key, "Cancelled", FALSE, {}) }

(***************************************************************************)
(* handlers.rs, handlers/integrations.rs, handlers/mcp_proxy.rs:           *)
(* Handler::handle of each tool, one step per suspension point             *)
(***************************************************************************)

\* TenantContext::get_context_id
get_context_id(context) ==
    IF context.context_type.kind = "Personal"
    THEN "personal-" \o context.user_id
    ELSE "org-" \o context.context_type.org_id

\* TenantContext::get_namespace_prefix
get_namespace_prefix(context) ==
    IF context.context_type.kind = "Personal"
    THEN "user:" \o context.user_id
    ELSE "org:" \o context.context_type.org_id \o ":user:" \o context.user_id

\* The key under which integration_connect stores the connection of the user
\* and integration_disconnect deletes it
connection_key(context, service_id, connection_id) ==
    "user-" \o context.user_id \o "-integration-" \o service_id \o "-"
        \o connection_id

\* The key under which integration_connect stores one credential:
\* format!("mcp-credential-{}-{}-{}", session.context.tenant_id, service_id, cred_key)
secret_key(context, service_id, cred_key) ==
    "mcp-credential-" \o context.tenant_id \o "-" \o service_id \o "-" \o cred_key

\* The cache key of analytics_query: the scope is the organization of the
\* arguments, else the user of the arguments, else the user of the session;
\* the time range is the startTime and endTime of the arguments as they were
\* given, "24h" and "now" standing for the absent ones
cache_key(context, args) ==
    LET scope == IF args.organization_id # None
                 THEN "org-" \o args.organization_id
                 ELSE IF args.user_id # None
                 THEN "user-" \o args.user_id
                 ELSE "user-" \o context.user_id
        time_range == (IF args.start_time # None THEN args.start_time ELSE "24h")
                      \o "-"
                      \o (IF args.end_time # None THEN args.end_time ELSE "now")
    IN  "analytics-" \o scope \o "-" \o time_range

\* The times of the sample that chrono::DateTime::parse_from_rfc3339 accepts
Rfc3339Times == {"2024-01-01T00:00:00Z", "2024-01-02T00:00:00Z"}

\* analytics_query after a cache miss: endTime, then startTime, is parsed when
\* given; FALSE stands for Err(AwsError::Config("Invalid ..."))
parse_time_window(args) ==
    /\ args.end_time # None => args.end_time \in Rfc3339Times
    /\ args.start_time # None => args.start_time \in Rfc3339Times

\* The arguments member of a tools/call, as far as the handlers read it.
\* valid: the object has the members the tool requires (a tool that requires
\* some answers InvalidArguments otherwise).  service_id, connection_id,
\* credentials: integration_*; deployment ("Docker" with docker_config),
\* has_ports, server_type (None when absent), auth_method:
\* integration_register; tool_name: mcp_proxy; key, value: kv_get, kv_set;
\* user_id, organization_id, start_time, end_time (None when absent or not a
\* string): events_analytics.
DefaultArgs ==
    [ valid |-> TRUE, service_id |-> "s1", connection_id |-> None,
      deployment |-> "Process", has_ports |-> FALSE, server_type |-> None,
      auth_method |-> NoAuth, credentials |-> [some |-> FALSE, map |-> <<>>],
      tool_name |-> "t1", key |-> "k", value |-> "v",
      user_id |-> None, organization_id |-> None,
      start_time |-> None, end_time |-> None ]
NoArgs == [DefaultArgs EXCEPT !.valid = FALSE]

\* The tools whose handler fails on an arguments object without members
RequiresArguments ==
    { "kv_get", "kv_set", "artifacts_get", "artifacts_put", "events_send",
      "events_create_rule", "events_create_alert", "integration_register",
      "integration_connect", "integration_disconnect", "integration_test",
      "mcp_proxy" }

\* The MCPServerConfig IntegrationRegisterHandler builds from the arguments
server_config(args) ==
    [ MCPServerConfig(args.service_id,
                      IF args.server_type = None THEN "Stdio" ELSE args.server_type,
                      args.deployment, args.has_ports)
        EXCEPT !.auth_method = args.auth_method ]

\* args.connection_id.unwrap_or_else(|| "default".to_string())
connection_id_of(args) ==
    IF args.connection_id = None THEN "default" ELSE args.connection_id

\* One Handler::handle call per task.  pc: "idle", the suspension point the
\* call is at, or "done" with result "ok" or the HandlerError it returns;
\* todo: the credentials integration_connect has still to store.  (The
\* session and the arguments of the call are those of the request.)
NoHandler == [pc |-> "idle", todo |-> {}, result |-> None]

\* Handler::handle returns
HandlerDone(w, k, result) ==
    [w EXCEPT !.h[k].pc = "done", !.h[k].result = result]

\* The handler awaits the registry call it has made
Awaiting(ws, k, pc) == { [x EXCEPT !.h[k].pc = pc] : x \in ws }

\* Handler::handle(session, arguments) of the tool up to its first suspension
\* point (or to its end).  A back-end that is not part of the model (S3,
\* EventBridge, the event tables) answers or fails.
HandlerStart(w, k, context, tool_name, args) ==
    LET ctx == get_context_id(context)
        w1 == [w EXCEPT !.h[k] = [NoHandler EXCEPT !.pc = "run"]]
    IN  IF tool_name \in RequiresArguments /\ ~args.valid
        THEN { HandlerDone(w1, k, "InvalidArguments") }
        ELSE CASE tool_name = "integration_register" ->
                    Awaiting(RegisterServer(w1, k, ctx, server_config(args)),
                             k, "register")
               [] tool_name = "integration_connect" ->
                    { [w1 EXCEPT
                          !.kv = kv_set_direct(@,
                                    connection_key(context, args.service_id,
                                                   connection_id_of(args)),
                                    "connection"),
                          !.h[k].pc = "secrets",
                          !.h[k].todo = IF args.credentials.some
                                        THEN DOMAIN args.credentials.map
                                        ELSE {}],
                      HandlerDone(w1, k, "Internal") }
               [] tool_name = "integration_list" ->
                    Awaiting(ListServers(w1, k, ctx), k, "kv_list")
               [] tool_name = "integration_disconnect" ->
                    Awaiting(DisconnectServer(w1, k, ctx, args.service_id),
                             k, "disconnect")
               [] tool_name = "integration_test" ->
                    { HandlerDone(x, k,
                         IF \E s \in x.reg.call[k].listed : s.id = args.service_id
                         THEN "ok" ELSE "Internal")
                      : x \in ListServers(w1, k, ctx) }
               [] tool_name = "mcp_proxy" ->
                    Awaiting(MCPProxy(w1, k, ctx, args.tool_name), k, "proxy")
               [] tool_name = "mcp_list_tools" ->
                    { HandlerDone(x, k, "ok") : x \in ListServers(w1, k, ctx) }
               [] tool_name = "kv_set" ->
                    { HandlerDone(
                         [w1 EXCEPT !.kv = kv_set_direct(@,
                                       get_namespace_prefix(context) \o ":"
                                           \o args.key,
                                       args.value)], k, "ok"),
                      HandlerDone(w1, k, "Aws") }
               [] tool_name = "events_analytics" ->
                    (IF cache_key(context, args) \in DOMAIN w.kv
                     THEN { HandlerDone(w1, k, "ok") } ELSE {})
                    \cup (IF parse_time_window(args)
                          THEN { [w1 EXCEPT !.h[k].pc = "cache"] } ELSE {})
                    \cup { HandlerDone(w1, k, "Aws") }
               [] OTHER ->
                    { HandlerDone(w1, k, "ok"), HandlerDone(w1, k, "Aws") }

\* Handler::handle from a suspension point to the next (or to its end).  While
\* the registry call it awaits has not returned, it is that call that goes on.
HandlerStep(w, k, context, args) ==
    LET me == w.h[k]
        call == w.reg.call[k]
        ctx == get_context_id(context)
    IN  IF call.op # None THEN RegistryStep(w, k)
        ELSE CASE me.pc = "register" ->
                    IF call.result = "Ok"
                    THEN { HandlerDone(
                              [w EXCEPT !.kv = kv_set_direct(@,
                                            "integration-" \o args.service_id,
                                            "integration " \o args.service_id)],
                              k, "ok"),
                           HandlerDone(w, k, "Internal") }
                    ELSE { HandlerDone(w, k, "Internal") }
               [] me.pc = "secrets" ->
                    IF me.todo # {}
                    THEN { [w EXCEPT
                              !.kv = kv_set_direct(@,
                                        secret_key(context, args.service_id,
                                                   cred_key),
                                        args.credentials.map[cred_key]),
                              !.h[k].todo = @ \ {cred_key}]
                           : cred_key \in me.todo }
                         \cup { HandlerDone(w, k, "Internal") }
                    ELSE Awaiting(ConnectServer(w, k, ctx, args.service_id),
                                  k, "connect")
               [] me.pc = "connect" ->
                    { HandlerDone(w, k, IF call.result = "Ok" THEN "ok"
                                        ELSE "Internal") }
               [] me.pc = "kv_list" ->
                    { HandlerDone(w, k, "ok"), HandlerDone(w, k, "Internal") }
               [] me.pc = "disconnect" ->
                    { HandlerDone(
                         [w EXCEPT !.kv = kv_delete(@,
                                       connection_key(context,
                                                      args.service_id,
                                                      connection_id_of(args)))],
                         k, "ok"),
                      HandlerDone(w, k, "Internal") }
               [] me.pc = "proxy" ->
                    { HandlerDone(w, k, IF call.result = "Ok" THEN "ok"
                                        ELSE "Internal") }
               [] me.pc = "cache" ->
                    { HandlerDone(
                         [w EXCEPT !.kv = kv_set_direct(@, cache_key(context, args),
                                                        "analytics")],
                         k, "ok"),
                      HandlerDone(w, k, "ok") }
               [] OTHER -> {}

\* The tables the handlers and the registry work on
World ==
    [ servers |-> servers, procs |-> procs, reg |-> reg,
      kv |-> integration.kv, h |-> integration.h ]

\* The tables become those of w
Apply(w) ==
    /\ servers' = w.servers
    /\ procs' = w.procs
    /\ reg' = w.reg
    /\ integration' = [kv |-> w.kv, h |-> w.h]

\* No handler runs and the key-value table is empty
NoIntegration == [kv |-> <<>>, h |-> [k \in Calls |-> NoHandler]]

(***************************************************************************)
(* mcp.rs: records, requests and responses                                 *)
(***************************************************************************)

\* An input line.  shape: "ok" (a JSON object with string fields jsonrpc and
\* method), "not_json", or "no_method" (JSON, but the required field method is
\* missing).  id is the id member as written: "absent", "null", the number 0
\* ("n:0") or the empty string ("s:").  tenant_id / user_id are None when
\* the member is absent.  params.present is FALSE when params is absent;
\* params.name is None when params has no string member name; params.events
\* and params.arg_events are the lengths of the arrays params.events and
\* params.arguments.events, -1 when there is no such array; params.args
\* is what the handlers read of params.arguments.
NoParams ==
    [present |-> FALSE, name |-> None, events |-> -1, arg_events |-> -1,
     args |-> NoArgs]
ToolParams(name, events, arg_events) ==
    [present |-> TRUE, name |-> name, events |-> events, arg_events |-> arg_events,
     args |-> DefaultArgs]
ToolArgs(name, args) ==
    [present |-> TRUE, name |-> name, events |-> -1, arg_events |-> -1,
     args |-> args]
Line(shape, id, method, tenant_id, user_id, params) ==
    [ shape |-> shape, id |-> id, method |-> method, tenant_id |-> tenant_id,
      user_id |-> user_id, params |-> params ]
NoLine == Line("ok", "absent", None, None, None, NoParams)

\* serde: Option<Value> is None for a missing member and for JSON null
ParseId(raw) == IF raw \in {"absent", "null"} THEN None ELSE raw

\* The parse as a bug would have it: a line that is not JSON is taken for a
\* request without members
ParseOk_lenient(line) == line.shape # "no_method"

\* serde_json::from_str::<MCPRequest>: fails unless the line is a JSON object
\* with the required members
ParseOk(line) == line.shape = "ok"

\* impl From<MCPError> for MCPErrorResponse: the code
ErrorCode(error) ==
    CASE error = "InvalidRequest"    -> -32600
      [] error = "MethodNotFound"    -> -32601
      [] error = "PermissionDenied"  -> -32000
      [] error = "RateLimitExceeded" -> -32001
      [] error = "TenantError"       -> -32002
      [] error = "HandlerError"      -> -32003
      [] error = "Internal"          -> -32603

\* struct MCPResponse, and "no response" (handle_request returned None)
NoResponse == [kind |-> "none", id |-> None, code |-> 0]
ResultResponse(id) == [kind |-> "result", id |-> id, code |-> 0]
\* The error response as a bug would have it: the id is always null
ErrorResponse_null_id(id, error) ==
    [kind |-> "error", id |-> None, code |-> ErrorCode(error)]
ErrorResponse(id, error) == [kind |-> "error", id |-> id, code |-> ErrorCode(error)]

\* AwsOperation::from_tool_name(tool_name, args); process_request passes the
\* whole params object as args, so args.get("events") reads params.events
from_tool_name(tool_name, args) ==
    CASE tool_name \in {"kv_get", "kv_list"}               -> Op("DynamoDbRead", 1)
      [] tool_name \in {"kv_set", "kv_delete"}             -> Op("DynamoDbWrite", 1)
      [] tool_name \in {"artifacts_get", "artifacts_list"} -> Op("S3Get", 0)
      [] tool_name = "artifacts_put"                       -> Op("S3Put", 0)
      [] tool_name = "events_send" ->
            Op("EventBridgePutEvents", IF args.events >= 0 THEN args.events ELSE 1)
      [] tool_name = "analytics_query"                     -> Op("DynamoDbQuery", 0)
      [] OTHER                                             -> Op("GenericAwsApi", 0)

\* get_or_create_session, first half: the principal named by the request, or
\* the environment's defaults; None where neither gives one
resolve_tenant_id(line) ==
    IF line.tenant_id # None THEN line.tenant_id ELSE env.DEFAULT_TENANT_ID
resolve_user_id(line) ==
    IF line.user_id # None THEN line.user_id ELSE env.DEFAULT_USER_ID

\* The position and data of one handle_request call.  built: the session
\* create_session has made and not yet inserted into the table
IdleCall ==
    [ pc |-> "idle", line |-> NoLine, tenant |-> None, user |-> None,
      built |-> None, session |-> 0, op |-> Op(None, 0), result |-> None,
      resp |-> NoResponse ]

\* incs / decs: increments and guard drops made; checked: the per-session check
\* passed; debited: the limiter was called; refused: None, "legacy" or "aws"
NoHist == [incs |-> 0, decs |-> 0, checked |-> FALSE, debited |-> FALSE,
           refused |-> None]

Returned(c, response) ==
    calls' = [calls EXCEPT ![c].pc = "returned", ![c].resp = response]

(***************************************************************************)
(* mcp.rs: MCPServer::handle_request and process_request, one action per   *)
(* step between two points where the task can be suspended or another      *)
(* thread can observe the shared tables.                                   *)
(***************************************************************************)

\* The test as a bug would have it: every falsy id counts as "no id"
is_notification_falsy(request_id) == request_id \in {None, "n:0", "s:"}

\* The test as a bug would have it: a request without id is processed like any
\* other and only its response is withheld
is_notification_never(request_id) == request_id = None /\ FALSE

\* handle_request: request_id.is_none()
is_notification(request_id) == request_id = None

\* handle_request up to the call of validate_tenant_access: parse, the
\* notification short-circuit, and the first half of get_or_create_session
\* (all local to the call).
HandleRequest(c) ==
    /\ calls[c].pc = "called"
    /\ LET line == calls[c].line
           request_id == ParseId(line.id)
           tenant_id == resolve_tenant_id(line)
           user_id == resolve_user_id(line)
       IN  IF ~ParseOk(line)
           THEN Returned(c, ErrorResponse(None, "InvalidRequest"))
           ELSE IF is_notification(request_id)
           THEN Returned(c, NoResponse)
           ELSE IF tenant_id = None \/ user_id = None
           THEN Returned(c, ErrorResponse(request_id, "InvalidRequest"))
           ELSE calls' = [calls EXCEPT ![c].pc = "validate",
                                       ![c].tenant = tenant_id,
                                       ![c].user = user_id]
    /\ UNCHANGED <<registry_vars, env, tenant_configs, sessions, buckets, now, charges,
                   last_charge, hist, admitted, run, out_buf, stdout>>

\* validate_tenant_access as a bug would have it: the user of a known tenant is
\* not compared with the user of the request
ValidateTenantAccess_any_user(c) ==
    /\ calls[c].pc = "validate"
    /\ LET tenant_id == calls[c].tenant
           request_id == ParseId(calls[c].line.id)
       IN  IF tenant_id \in DOMAIN tenant_configs
           THEN calls' = [calls EXCEPT ![c].pc = "create"]
           ELSE IF env.DEFAULT_TENANT_ID # None
                THEN calls' = [calls EXCEPT ![c].pc = "register"]
                ELSE Returned(c, ErrorResponse(request_id, "TenantError"))
    /\ UNCHANGED <<registry_vars, env, tenant_configs, sessions, buckets, now, charges,
                   last_charge, hist, admitted, run, out_buf, stdout>>

\* TenantManager::validate_tenant_access, the block under the read lock and
\* the test of DEFAULT_TENANT_ID
ValidateTenantAccess(c) ==
    /\ calls[c].pc = "validate"
    /\ LET tenant_id == calls[c].tenant
           request_id == ParseId(calls[c].line.id)
       IN  IF tenant_id \in DOMAIN tenant_configs
           THEN IF tenant_configs[tenant_id].user_id # calls[c].user
                THEN Returned(c, ErrorResponse(request_id, "TenantError"))
                ELSE calls' = [calls EXCEPT ![c].pc = "create"]
           ELSE IF env.DEFAULT_TENANT_ID # None
                THEN calls' = [calls EXCEPT ![c].pc = "register"]
                ELSE Returned(c, ErrorResponse(request_id, "TenantError"))
    /\ UNCHANGED <<registry_vars, env, tenant_configs, sessions, buckets, now, charges,
                   last_charge, hist, admitted, run, out_buf, stdout>>

\* validate_tenant_access, auto-registration: configs.insert under the write
\* lock, taken after the read lock was released
AutoRegister(c) ==
    /\ calls[c].pc = "register"
    /\ LET tenant_id == calls[c].tenant
       IN  tenant_configs' =
              [t \in DOMAIN tenant_configs \cup {tenant_id} |->
                  IF t = tenant_id THEN auto_context(tenant_id, calls[c].user)
                  ELSE tenant_configs[t]]
    /\ calls' = [calls EXCEPT ![c].pc = "create"]
    /\ UNCHANGED <<registry_vars, env, sessions, buckets, now, charges, last_charge, hist,
                   admitted, run, out_buf, stdout>>

\* create_session as a bug would have it: the requests of a tenant share the
\* session made for the first of them
CreateSession_shared(c) ==
    /\ calls[c].pc = "create"
    /\ LET tenant_id == calls[c].tenant
           request_id == ParseId(calls[c].line.id)
           existing == { i \in DOMAIN sessions :
                           sessions[i].context.tenant_id = tenant_id }
       IN  IF tenant_id \notin DOMAIN tenant_configs
           THEN /\ Returned(c, ErrorResponse(request_id, "TenantError"))
                /\ UNCHANGED sessions
           ELSE IF existing # {}
           THEN /\ calls' = [calls EXCEPT ![c].pc = "check",
                                          ![c].session = CHOOSE i \in existing : TRUE]
                /\ UNCHANGED sessions
           ELSE /\ calls' = [calls EXCEPT
                                ![c].pc = "insert",
                                ![c].built = TenantSession_new(
                                                tenant_configs[tenant_id], now)]
                /\ UNCHANGED sessions
    /\ UNCHANGED <<registry_vars, env, tenant_configs, buckets, now, charges, last_charge,
                   hist, admitted, run, out_buf, stdout>>

\* TenantManager::create_session up to drop(configs) and TenantSession::new:
\* the context of the tenant is read under the read lock of tenant_configs and
\* a new session, with a fresh uuid, is built from it for every request
CreateSession(c) ==
    /\ calls[c].pc = "create"
    /\ LET tenant_id == calls[c].tenant
           request_id == ParseId(calls[c].line.id)
       IN  IF tenant_id \notin DOMAIN tenant_configs
           THEN /\ Returned(c, ErrorResponse(request_id, "TenantError"))
                /\ UNCHANGED sessions
           ELSE /\ calls' = [calls EXCEPT
                                ![c].pc = "insert",
                                ![c].built = TenantSession_new(
                                                tenant_configs[tenant_id], now)]
                /\ UNCHANGED sessions
    /\ UNCHANGED <<registry_vars, env, tenant_configs, buckets, now, charges, last_charge,
                   hist, admitted, run, out_buf, stdout>>

\* create_session from sessions.write().await on: the session built is
\* inserted under the write lock of the table
InsertSession(c) ==
    /\ calls[c].pc = "insert"
    /\ sessions' = Append(sessions, calls[c].built)
    /\ calls' = [calls EXCEPT ![c].pc = "check",
                              ![c].built = None,
                              ![c].session = Len(sessions) + 1]
    /\ UNCHANGED <<registry_vars, env, tenant_configs, buckets, now, charges, last_charge,
                   hist, admitted, run, out_buf, stdout>>

\* process_request: session.check_rate_limit(), then the choice of the AWS
\* operation of a tools/call
CheckRateLimit(c) ==
    /\ calls[c].pc = "check"
    /\ LET line == calls[c].line
           request_id == ParseId(line.id)
       IN  IF ~check_rate_limit(sessions[calls[c].session])
           THEN /\ Returned(c, ErrorResponse(request_id, "RateLimitExceeded"))
                /\ hist' = [hist EXCEPT ![c].refused = "legacy"]
           ELSE /\ hist' = [hist EXCEPT ![c].checked = TRUE]
                /\ IF /\ line.method = "tools/call"
                      /\ line.params.present
                      /\ line.params.name # None
                   THEN calls' = [calls EXCEPT
                                    ![c].pc = "aws",
                                    ![c].op = from_tool_name(line.params.name,
                                                             line.params)]
                   ELSE calls' = [calls EXCEPT ![c].pc = "incr"]
    /\ UNCHANGED <<registry_vars, env, tenant_configs, sessions, buckets, now, charges,
                   last_charge, admitted, run, out_buf, stdout>>

\* The limiter check as a bug would have it: made after the counters were
\* incremented, so that a refused request has been counted
CheckAwsOperation_after_increment(c) ==
    /\ calls[c].pc = "aws"
    /\ LET s == sessions[calls[c].session]
           request_id == ParseId(calls[c].line.id)
           res == check_aws_operation(buckets, s.context.tenant_id, calls[c].op, now)
       IN  /\ buckets' = res.buckets
           /\ sessions' = [sessions EXCEPT ![calls[c].session] =
                              increment_request_count(@)]
           /\ IF res.allowed
              THEN /\ calls' = [calls EXCEPT ![c].pc = "incr"]
                   /\ hist' = [hist EXCEPT ![c].debited = TRUE]
              ELSE /\ Returned(c, ErrorResponse(request_id, "RateLimitExceeded"))
                   /\ hist' = [hist EXCEPT ![c].debited = TRUE,
                                           ![c].refused = "aws"]
    /\ UNCHANGED <<registry_vars, env, tenant_configs, now, charges, last_charge,
                   admitted, run, out_buf, stdout>>

\* process_request: session.check_aws_operation(&aws_limiter, &aws_operation)
CheckAwsOperation(c) ==
    /\ calls[c].pc = "aws"
    /\ LET s == sessions[calls[c].session]
           request_id == ParseId(calls[c].line.id)
           res == check_aws_operation(buckets, s.context.tenant_id, calls[c].op, now)
       IN  /\ buckets' = res.buckets
           /\ IF res.allowed
              THEN /\ calls' = [calls EXCEPT ![c].pc = "incr"]
                   /\ hist' = [hist EXCEPT ![c].debited = TRUE]
              ELSE /\ Returned(c, ErrorResponse(request_id, "RateLimitExceeded"))
                   /\ hist' = [hist EXCEPT ![c].debited = TRUE,
                                           ![c].refused = "aws"]
    /\ UNCHANGED <<registry_vars, env, tenant_configs, sessions, now, charges, last_charge,
                   admitted, run, out_buf, stdout>>

\* process_request: increment_request_count, increment_active_requests and
\* RequestGuard::new (no suspension point between them; request_count is read
\* by the owning call only)
IncrementCounters(c) ==
    /\ calls[c].pc = "incr"
    /\ sessions' = [sessions EXCEPT ![calls[c].session] =
                       increment_active_requests(increment_request_count(@))]
    /\ hist' = [hist EXCEPT ![c].incs = @ + 1]
    /\ admitted' = [admitted EXCEPT ![calls[c].tenant] = @ + 1]
    /\ calls' = [calls EXCEPT ![c].pc = "activity"]
    /\ UNCHANGED <<registry_vars, env, tenant_configs, buckets, now, charges, last_charge,
                   run, out_buf, stdout>>

\* TenantSession::update_activity
UpdateActivity(c) ==
    /\ calls[c].pc = "activity"
    /\ sessions' = [sessions EXCEPT ![calls[c].session].last_activity = now]
    /\ calls' = [calls EXCEPT ![c].pc = "dispatch"]
    /\ UNCHANGED <<registry_vars, env, tenant_configs, buckets, now, charges, last_charge,
                   hist, admitted, run, out_buf, stdout>>

\* process_request: the match on request.method, as far as the result goes.
\* result is what the handler a tools/call ran returned ("ok" or its
\* HandlerError; handle_tool_call of mcp.rs maps every HandlerError to
\* MCPError::HandlerError).  The value is "ok" or the MCPError variant
\* returned.
route(line, s, result) ==
    CASE line.method = "initialize" -> "ok"
      [] line.method = "tools/list" -> "ok"
      [] line.method = "tools/call" ->
            IF ~line.params.present THEN "InvalidRequest"
            ELSE IF line.params.name = None THEN "InvalidRequest"
            ELSE IF handle_tool_call(s, line.params.name) = "run" /\ result = "ok"
                 THEN "ok"
                 ELSE "HandlerError"
      [] line.method = "notifications/initialized" -> "ok"
      [] OTHER -> "MethodNotFound"

\* process_request: the match on request.method.  A tools/call whose tool is
\* registered and permitted runs the handler of the tool, one step per
\* suspension point of the handler (pc "handler" between them); when the
\* handler has returned, or none is run, process_request has its result.
Dispatch(c) ==
    /\ calls[c].pc \in {"dispatch", "handler"}
    /\ LET line == calls[c].line
           s == sessions[calls[c].session]
           runs == /\ line.method = "tools/call"
                   /\ line.params.present
                   /\ line.params.name # None
                   /\ handle_tool_call(s, line.params.name) = "run"
           successors ==
               IF calls[c].pc = "handler" THEN HandlerStep(World, c, s.context, line.params.args)
               ELSE IF runs
               THEN HandlerStart(World, c, s.context, line.params.name,
                                 line.params.args)
               ELSE { World }
       IN  \E w \in successors :
              IF w.h[c].pc \in {"idle", "done"}
              THEN /\ Apply([w EXCEPT !.h[c] = NoHandler,
                                      !.reg.call[c] = NoCall])
                   /\ calls' = [calls EXCEPT
                                  ![c].pc = "drop",
                                  ![c].result = route(line, s, w.h[c].result)]
              ELSE /\ Apply(w)
                   /\ calls' = [calls EXCEPT ![c].pc = "handler"]
    /\ UNCHANGED <<env_build, tool_probe, cleanup, env, tenant_configs, sessions,
                   buckets, now, charges, last_charge, hist, admitted, run,
                   out_buf, stdout>>

\* The decrement as a bug would have it: made by hand on the success path only,
\* instead of in Drop
RequestGuard_drop_on_success(s, result) ==
    IF result = "ok" THEN decrement_active_requests(s) ELSE s

\* impl Drop for RequestGuard, run when process_request returns on any path
\* after the guard was made; the session afterwards
RequestGuard_drop(s, result) == decrement_active_requests(s)

\* process_request returns: the guard is dropped and handle_request builds the
\* response
DropGuard(c) ==
    /\ calls[c].pc = "drop"
    /\ sessions' = [sessions EXCEPT ![calls[c].session] =
                       RequestGuard_drop(@, calls[c].result)]
    /\ hist' = [hist EXCEPT ![c].decs = @ + 1]
    /\ LET request_id == ParseId(calls[c].line.id)
       IN  IF calls[c].result = "ok"
           THEN Returned(c, ResultResponse(request_id))
           ELSE Returned(c, ErrorResponse(request_id, calls[c].result))
    /\ UNCHANGED <<registry_vars, env, tenant_configs, buckets, now, charges, last_charge,
                   admitted, run, out_buf, stdout>>

\* One step of the handle_request call c
CallStep(c) ==
    \/ HandleRequest(c)
    \/ ValidateTenantAccess(c)
    \/ AutoRegister(c)
    \/ CreateSession(c)
    \/ InsertSession(c)
    \/ CheckRateLimit(c)
    \/ CheckAwsOperation(c)
    \/ IncrementCounters(c)
    \/ UpdateActivity(c)
    \/ Dispatch(c)
    \/ DropGuard(c)

\* Time passes
Tick ==
    /\ now < MaxTime
    /\ now' = now + 1
    /\ UNCHANGED <<registry_vars, env, tenant_configs, sessions, buckets, charges, last_charge,
                   calls, hist, admitted, run, out_buf, stdout>>

\* Time passes, up to a later one of these instants
Elapse(t) ==
    /\ t > now
    /\ now' = t
    /\ UNCHANGED <<registry_vars, env, tenant_configs, sessions, buckets, charges,
                   last_charge, calls, hist, admitted, run, out_buf, stdout>>

(***************************************************************************)
(* Initial states                                                          *)
(***************************************************************************)

\* The environment the process is started in: with or without the defaults
\* (which also switch auto-registration on), with or without DEV_MODE=true
Envs ==
    { [DEFAULT_TENANT_ID |-> d[1], DEFAULT_USER_ID |-> d[2], DEV_MODE |-> dev] :
        d \in {<<None, None>>, <<"t2", "u2">>}, dev \in BOOLEAN }

\* waited: the 50 ms sleeps wait_for_active_requests has made
InitRun ==
    [ pc |-> "read", nread |-> 0, shutdown_flag |-> FALSE, read_error |-> FALSE,
      waited |-> 0, result |-> None, status |-> -1, log |-> <<>> ]

\* No environment is being built
NoEnvBuild ==
    [ pc |-> "idle", config_env |-> <<>>,
      credentials |-> [some |-> FALSE, map |-> <<>>],
      auth_method |-> [kind |-> "None", key_field |-> None], store |-> <<>>,
      todo |-> <<>>, found |-> <<>>, env_vars |-> <<>> ]

\* MCPServer::new over TenantManager::new in environment e: everything but
\* env_build
InitTables(e) ==
    /\ env = e
    /\ tenant_configs = TenantManager_new(e)
    /\ sessions = <<>>
    /\ buckets = <<>>
    /\ now = 0
    /\ charges = 0
    /\ last_charge = NoCharge
    /\ calls = [c \in Calls |-> IdleCall]
    /\ hist = [c \in Calls |-> NoHist]
    /\ admitted = [t \in Tenants |-> 0]
    /\ run = InitRun
    /\ out_buf = <<>>
    /\ stdout = <<>>
    /\ servers = <<>>
    /\ procs = <<>>
    /\ reg = InitReg

\* No caller holds a session of its own
NoToolProbe ==
    [ pc |-> "idle", session |-> None, listed |-> {}, tool_name |-> None,
      args |-> NoArgs, outcome |-> None, calls_left |-> 0,
      response |-> NoResponse ]

\* cleanup_expired_sessions has not been called and nobody holds a lock.
\* removed: the sessions taken out of TenantManager.sessions (the Arc of a
\* removed session lives on with its holders); held: the guards alive, as
\* <<owner, lock, mode>> (owner 0 is the cleanup, lock 0 the sessions table);
\* waiting: the calls queued at a lock, oldest first, in the same form
NoCleanup ==
    [ pc |-> "idle", now |-> 0, keys |-> {}, session |-> 0, expired |-> {},
      removed |-> {}, held |-> {}, waiting |-> <<>>,
      clients |-> [k \in 1 .. NumClients |->
                     [op |-> None, pc |-> "idle", built |-> None, session |-> 0]] ]

InitIn(e) ==
    /\ InitTables(e)
    /\ env_build = NoEnvBuild
    /\ tool_probe = NoToolProbe
    /\ cleanup = NoCleanup
    /\ integration = NoIntegration

Init == \E e \in Envs : InitIn(e)

(***************************************************************************)
(* Spec: overlapping handle_request calls (tests/concurrency_test.rs)      *)
(***************************************************************************)

DemoLine(id, method, params) ==
    Line("ok", id, method, "demo-tenant", "user-demo-123", params)

\* The requests the overlapping calls are made with
ConcLines ==
    { DemoLine("n:0", "tools/list", NoParams),
      DemoLine("n:0", "tools/call", ToolParams("kv_get", -1, -1)),
      DemoLine("n:0", "nope", NoParams),
      Line("ok", "n:0", "tools/list", "t2", "u2", NoParams),
      Line("ok", "n:0", "tools/list", "t2", "user-demo-123", NoParams) }

\* tokio::spawn(server.handle_request(line)): the calls are started in the
\* order of their index
Spawn(c, line) ==
    /\ calls[c].pc = "idle"
    /\ \A d \in Calls : d < c => calls[d].pc # "idle"
    /\ calls' = [calls EXCEPT ![c].pc = "called", ![c].line = line]
    /\ UNCHANGED <<registry_vars, env, tenant_configs, sessions, buckets, now, charges,
                   last_charge, hist, admitted, run, out_buf, stdout>>

\* The overlapping calls of a burst run within one tick of the clock
Next ==
    \/ \E c \in Calls, line \in ConcLines : Spawn(c, line)
    \/ \E c \in Calls : CallStep(c)

Spec == Init /\ [][Next]_vars

(***************************************************************************)
(* SpecLimiter: AwsRateLimiter used directly (rate_limiting.rs, mod tests) *)
(***************************************************************************)

LimiterTenants == {"tenant1", "tenant1:s3_get"}

LimiterOps ==
    { Op("DynamoDbRead", n) : n \in 0 .. MaxUnits } \cup
    { Op("EventBridgePutEvents", MaxUnits), Op("S3List", 0) }

\* limiter.check_aws_operation(tenant_id, &op).await
LimiterCall(tenant_id, op) ==
    /\ charges < MaxCharges
    /\ LET res == check_aws_operation(buckets, tenant_id, op, now)
       IN  /\ buckets' = res.buckets
           /\ last_charge' = [tenant |-> tenant_id, op |-> op,
                              allowed |-> res.allowed,
                              prev_tenant |-> last_charge.tenant,
                              prev_kind |-> last_charge.op.kind,
                              prev_allowed |-> last_charge.allowed]
    /\ charges' = charges + 1
    /\ UNCHANGED <<registry_vars, env, tenant_configs, sessions, now, calls, hist, admitted,
                   run, out_buf, stdout>>

InitLimiter ==
    InitIn([DEFAULT_TENANT_ID |-> None, DEFAULT_USER_ID |-> None, DEV_MODE |-> FALSE])

NextLimiter ==
    \/ \E t \in LimiterTenants, op \in LimiterOps : LimiterCall(t, op)
    \/ Tick

SpecLimiter == InitLimiter /\ [][NextLimiter]_vars

(***************************************************************************)
(* SpecRun: MCPServer::run and main, the stdio loop.  The loop awaits      *)
(* handle_request inline, so one call (slot 1) is in progress at a time.   *)
(* The records of a run arrive within one tick of the clock.               *)
(***************************************************************************)

Methods == {"initialize", "tools/list", "tools/call", "notifications/initialized",
            "nope"}
RawIds == {"absent", "null", "n:0", "s:"}

\* The records the client may send: every form of id on tools/list, every
\* method with the id 0, an unknown method with the id "", tools/call with a
\* null id and without id, tools/call requests of handlers of each kind, and
\* records that do not parse or name another principal
RunLines ==
    { DemoLine(id, "tools/list", NoParams) : id \in RawIds } \cup
    { DemoLine("n:0", m, NoParams) : m \in Methods } \cup
    { DemoLine("s:", "nope", NoParams),
      DemoLine("null", "tools/call", NoParams) } \cup
    { DemoLine("n:0", "tools/call", ToolParams("kv_get", -1, -1)),
      DemoLine("absent", "tools/call", ToolParams("kv_get", -1, -1)),
      DemoLine("n:0", "tools/call", ToolParams("events_send", -1, 2)),
      DemoLine("n:0", "tools/call", ToolParams("mcp_proxy", -1, -1)),
      DemoLine("n:0", "tools/call", ToolParams("integration_register", -1, -1)),
      Line("not_json", "absent", None, None, None, NoParams),
      Line("no_method", "n:0", None, "demo-tenant", "user-demo-123", NoParams),
      Line("ok", "n:0", "tools/list", "demo-tenant", "u2", NoParams),
      Line("ok", "n:0", "tools/list", "t2", "u2", NoParams),
      Line("ok", "s:", "initialize", None, None, NoParams),
      Line("ok", "n:0", "nope", None, None, NoParams) }

\* What the loop writes for a response: the serialized object, then "\n"
JsonChunk(seq, resp) == [seq |-> seq, kind |-> resp.kind, id |-> resp.id, code |-> resp.code]
NewlineChunk(seq) == [seq |-> seq, kind |-> "nl", id |-> None, code |-> 0]

\* reader.read_line returned Ok(n), n > 0: the shutdown flag is tested, then
\* handle_request(line.trim()) is called
ReadLine(line) ==
    /\ run.pc = "read"
    /\ run.nread < MaxRecords
    /\ IF run.shutdown_flag
       THEN /\ run' = [run EXCEPT !.pc = "drain", !.nread = @ + 1]
            /\ UNCHANGED <<registry_vars, calls, hist>>
       ELSE /\ run' = [run EXCEPT !.pc = "handling", !.nread = @ + 1]
            /\ calls' = [calls EXCEPT ![1] = [IdleCall EXCEPT !.pc = "called",
                                                              !.line = line]]
            /\ hist' = [hist EXCEPT ![1] = NoHist]
    /\ UNCHANGED <<registry_vars, env, tenant_configs, sessions, buckets, now, charges,
                   last_charge, admitted, out_buf, stdout>>

\* reader.read_line returned Ok(0): initiate_shutdown, break
ReadEof ==
    /\ run.pc = "read"
    /\ run' = [run EXCEPT !.pc = "drain", !.shutdown_flag = TRUE]
    /\ UNCHANGED <<registry_vars, env, tenant_configs, sessions, buckets, now, charges,
                   last_charge, calls, hist, admitted, out_buf, stdout>>

\* reader.read_line returned Err(e): initiate_shutdown, break
ReadError ==
    /\ run.pc = "read"
    /\ run' = [run EXCEPT !.pc = "drain", !.shutdown_flag = TRUE,
                          !.read_error = TRUE]
    /\ UNCHANGED <<registry_vars, env, tenant_configs, sessions, buckets, now, charges,
                   last_charge, calls, hist, admitted, out_buf, stdout>>

\* handle_request returned: None goes back to read_line, Some(response) is
\* serialized
HandleReturned ==
    /\ run.pc = "handling"
    /\ calls[1].pc = "returned"
    /\ run' = [run EXCEPT
                 !.pc = IF calls[1].resp.kind = "none" THEN "read" ELSE "write_json",
                 !.log = Append(@, [seq |-> run.nread, resp |-> calls[1].resp])]
    /\ calls' = [calls EXCEPT ![1] = IdleCall]
    /\ UNCHANGED <<registry_vars, env, tenant_configs, sessions, buckets, now, charges,
                   last_charge, hist, admitted, out_buf, stdout>>

\* stdout.write_all(response_json.as_bytes()).await?
WriteJson ==
    /\ run.pc = "write_json"
    /\ out_buf' = Append(out_buf, JsonChunk(run.nread, run.log[Len(run.log)].resp))
    /\ run' = [run EXCEPT !.pc = "write_nl"]
    /\ UNCHANGED <<registry_vars, env, tenant_configs, sessions, buckets, now, charges,
                   last_charge, calls, hist, admitted, stdout>>

\* stdout.write_all(b"\n").await?
WriteNewline ==
    /\ run.pc = "write_nl"
    /\ out_buf' = Append(out_buf, NewlineChunk(run.nread))
    /\ run' = [run EXCEPT !.pc = "flush"]
    /\ UNCHANGED <<registry_vars, env, tenant_configs, sessions, buckets, now, charges,
                   last_charge, calls, hist, admitted, stdout>>

\* flush as a bug would have it: it returns without delivering what is pending
flush_not_waiting(delivered, pending) == [delivered |-> delivered, pending |-> pending]

\* What stdout.flush() leaves written and pending
flush(delivered, pending) == [delivered |-> delivered \o pending, pending |-> <<>>]

\* stdout.flush().await?: returns when everything written has been delivered
Flush ==
    /\ run.pc = "flush"
    /\ stdout' = flush(stdout, out_buf).delivered
    /\ out_buf' = flush(stdout, out_buf).pending
    /\ run' = [run EXCEPT !.pc = "read"]
    /\ UNCHANGED <<registry_vars, env, tenant_configs, sessions, buckets, now, charges,
                   last_charge, calls, hist, admitted>>

\* Written bytes may reach the stream before flush is called
Deliver ==
    /\ out_buf # <<>>
    /\ stdout' = Append(stdout, Head(out_buf))
    /\ out_buf' = Tail(out_buf)
    /\ UNCHANGED <<registry_vars, env, tenant_configs, sessions, buckets, now, charges,
                   last_charge, calls, hist, admitted, run>>

\* A write_all or flush fails: the ? operator returns the error from run,
\* without the drain
WriteFails ==
    /\ run.pc \in {"write_json", "write_nl", "flush"}
    /\ run' = [run EXCEPT !.pc = "main", !.result = "err"]
    /\ UNCHANGED <<registry_vars, env, tenant_configs, sessions, buckets, now, charges,
                   last_charge, calls, hist, admitted, out_buf, stdout>>

\* wait_for_active_requests as a bug would have it: it sleeps whatever the sum
\* is and has no deadline
WaitForActiveRequests_no_deadline ==
    /\ run.pc = "drain"
    /\ run' = [run EXCEPT !.waited = (@ + 1) % (MaxWaitIntervals + 1)]
    /\ UNCHANGED <<registry_vars, env, tenant_configs, sessions, buckets, now, charges,
                   last_charge, calls, hist, admitted, out_buf, stdout>>

\* wait_for_active_requests, one turn of its loop: past the deadline (max_wait
\* of 5 s, MaxWaitIntervals sleeps of check_interval) or with a sum of
\* active_requests of 0 it returns and run returns Ok(()); otherwise it sleeps
\* for check_interval
WaitForActiveRequests ==
    /\ run.pc = "drain"
    /\ IF run.waited >= MaxWaitIntervals \/ get_total_active_requests = 0
       THEN run' = [run EXCEPT !.pc = "main", !.result = "ok"]
       ELSE run' = [run EXCEPT !.waited = @ + 1]
    /\ UNCHANGED <<registry_vars, env, tenant_configs, sessions, buckets, now, charges,
                   last_charge, calls, hist, admitted, out_buf, stdout>>

\* main: std::process::exit(if result.is_ok() { 0 } else { 1 })
Exit ==
    /\ run.pc = "main"
    /\ run' = [run EXCEPT !.pc = "exited",
                          !.status = IF run.result = "ok" THEN 0 ELSE 1]
    /\ UNCHANGED <<registry_vars, env, tenant_configs, sessions, buckets, now, charges,
                   last_charge, calls, hist, admitted, out_buf, stdout>>

NextRun ==
    \/ \E line \in RunLines : ReadLine(line)
    \/ ReadEof
    \/ ReadError
    \/ CallStep(1)
    \/ HandleReturned
    \/ WriteJson
    \/ WriteNewline
    \/ Flush
    \/ Deliver
    \/ WriteFails
    \/ WaitForActiveRequests
    \/ Exit

SpecRun == Init /\ [][NextRun]_vars

\* The same loop with the scheduling the runtime gives it: once run has left
\* its loop, wait_for_active_requests and main keep being polled
SpecRunFair ==
    SpecRun /\ WF_vars(WaitForActiveRequests) /\ WF_vars(Exit)


(***************************************************************************)
(* SpecRegistry: the sub-server registry called by two tasks at a time     *)
(* (the registry is shared through an Arc and handle_request calls         *)
(* overlap, tests/concurrency_test.rs), beside the children and the input  *)
(***************************************************************************)

\* The tasks that call the registry
RegCallers == {1, 2}

\* Task k may begin a registry call: it is in none, the input is open and the
\* process runs.  The tasks are interchangeable: the second is the one that
\* calls while the first is in a call.
RegistryIdle(k) ==
    /\ ~reg.exited
    /\ ~reg.stdin_closed
    /\ reg.call[k].op = None
    /\ k = 1 \/ reg.call[1].op # None
    /\ reg.ops < MaxRegistryOps

\* Task k drops what a call that has returned gave it; reg.last keeps it
Dropped(w, k) ==
    IF w.reg.call[k].op = None
    THEN [w EXCEPT
             !.reg.call[k] = NoCall,
             !.reg.last = [ op |-> w.reg.call[k].returned,
                            key |-> w.reg.call[k].key,
                            result |-> w.reg.call[k].result,
                            forwarded |-> w.reg.call[k].forwarded,
                            listed |-> w.reg.call[k].listed ]]
    ELSE w

\* Task k begins a registry call, which leaves one of the successors
DirectCall(k, successors) ==
    /\ RegistryIdle(k)
    /\ \E w \in successors : Apply(Dropped([w EXCEPT !.reg.ops = @ + 1], k))
    /\ UNCHANGED <<mcp_vars, env_build, tool_probe, cleanup>>

\* The registry call task k is in goes on
DirectStep(k) ==
    /\ ~reg.exited
    /\ reg.call[k].op # None
    /\ \E w \in RegistryStep(World, k) : Apply(Dropped(w, k))
    /\ UNCHANGED <<mcp_vars, env_build, tool_probe, cleanup>>

\* The caller of the registry call task k is in gives the call up while it
\* is suspended
DirectCancel(k) ==
    /\ ~reg.exited
    /\ reg.call[k].op # None
    /\ RegistrySuspended(World, k)
    /\ \E w \in RegistryCancelled(World, k) : Apply(Dropped(w, k))
    /\ UNCHANGED <<mcp_vars, env_build, tool_probe, cleanup>>

\* A child process ends by itself
ChildExits(h) ==
    /\ ~reg.exited
    /\ procs[h].kind = "process"
    /\ procs[h].state = "running"
    /\ procs' = [procs EXCEPT ![h].state = "exited"]
    /\ UNCHANGED <<mcp_vars, direct_vars, servers, reg>>

\* The client closes the input stream
CloseStdin ==
    /\ ~reg.stdin_closed
    /\ reg' = [reg EXCEPT !.stdin_closed = TRUE]
    /\ UNCHANGED <<mcp_vars, direct_vars, servers, procs>>

\* run reads end-of-input, drains and returns once no request is being
\* handled; main sleeps and exits.  Nothing on this path touches the registry.
Shutdown ==
    /\ reg.stdin_closed
    /\ \A k \in Calls : reg.call[k].op = None
    /\ ~reg.exited
    /\ reg' = [reg EXCEPT !.exited = TRUE]
    /\ UNCHANGED <<mcp_vars, direct_vars, servers, procs>>

\* Values of one MCPServerConnection, beyond those the reachable states hold:
\* every status with and without a process handle, a container id and a cached
\* tool
ConnectionSpace ==
    [ config : { MCPServerConfig("s1", "Stdio", "Process", FALSE) },
      process : {0, 1}, container_id : {0, 1}, endpoint : {None},
      status : {"Disconnected", "Connecting", "Connected", "Failed"},
      reason : {None}, last_health_check : {0},
      tools : {<<>>, <<"t1">>} ]

\* Times at which health_check looks at an entry whose last_health_check is 0:
\* at once, just before the interval of 60 s has elapsed, and when it has
HealthTimes == {0, 60 * TicksPerSecond - 1, 60 * TicksPerSecond}

InitRegistry ==
    InitIn([DEFAULT_TENANT_ID |-> None, DEFAULT_USER_ID |-> None, DEV_MODE |-> TRUE])

\* What the registry, its callers, the children and the clock do, apart from
\* giving a call up
RegistryRuns ==
    \/ \E k \in RegCallers, t \in RegContexts, cfg \in RegConfigs :
          DirectCall(k, RegisterServer(World, k, t, cfg))
    \/ \E k \in RegCallers, t \in RegContexts, i \in ServerIds :
          DirectCall(k, ConnectServer(World, k, t, i))
    \/ \E k \in RegCallers, t \in RegContexts, i \in ServerIds :
          DirectCall(k, DisconnectServer(World, k, t, i))
    \/ \E k \in RegCallers, t \in RegContexts, i \in ServerIds, tool \in ToolNames :
          DirectCall(k, ExecuteTool(World, k, t, i, tool))
    \/ \E k \in RegCallers, t \in RegContexts :
          DirectCall(k, ListServers(World, k, t))
    \/ \E k \in RegCallers, t \in RegContexts, tool \in ProxyToolNames :
          DirectCall(k, MCPProxy(World, k, t, tool))
    \/ \E k \in RegCallers : DirectCall(k, HealthCheck(World, k))
    \/ \E k \in RegCallers : DirectStep(k)
    \/ \E h \in DOMAIN procs : ChildExits(h)
    \/ CloseStdin
    \/ Shutdown

NextRegistry ==
    \/ RegistryRuns
    \/ \E k \in RegCallers : DirectCancel(k)

SpecRegistry == InitRegistry /\ [][NextRegistry]_vars

\* The same with every step that can be taken eventually taken, except that
\* no caller has to give a call up
SpecRegistryFair == SpecRegistry /\ WF_vars(RegistryRuns)

(***************************************************************************)
(* SpecHealth: health_check called beside register_server and              *)
(* connect_server of one context, while children end and time passes       *)
(***************************************************************************)

NextHealth ==
    \/ \E k \in RegCallers, cfg \in { c \in RegConfigs : c.server_type = "Stdio" } :
          DirectCall(k, RegisterServer(World, k, "org-a", cfg))
    \/ \E k \in RegCallers, i \in ServerIds :
          DirectCall(k, ConnectServer(World, k, "org-a", i))
    \/ \E k \in RegCallers : DirectCall(k, HealthCheck(World, k))
    \/ \E k \in RegCallers : DirectStep(k)
    \/ \E k \in RegCallers : DirectCancel(k)
    \/ \E h \in DOMAIN procs : ChildExits(h)
    \/ \E t \in HealthTimes : Elapse(t)

SpecHealth == InitRegistry /\ [][NextHealth]_vars

(***************************************************************************)
(* SpecEnv: connect_server building the environment of the child           *)
(***************************************************************************)

\* Names of environment variables in config.env and in the credentials of a
\* call
EnvKeys == {"API_TOKEN", "CLIENT_ID", "USERNAME"}

\* Names under which get_credential looks up stored credentials
CredentialNames == {"api_key", "client_id", "client_secret"}

\* The maps from some of the names in keys to the value v
MapsTo(keys, v) == UNION { [d -> {v}] : d \in SUBSET keys }

\* AuthMethod: None, ApiKey { key_field }, OAuth2 { .. }, Basic { .. }
AuthMethods ==
    { [kind |-> "None", key_field |-> None],
      [kind |-> "ApiKey", key_field |-> "API_TOKEN"],
      [kind |-> "ApiKey", key_field |-> "X_KEY"],
      [kind |-> "OAuth2", key_field |-> None],
      [kind |-> "Basic", key_field |-> None] }

\* The credentials loop as a bug would have it: a name config.env already has
\* keeps the value of config.env
inject_credentials_keep_existing(env_vars, credentials) ==
    IF ~credentials.some THEN env_vars
    ELSE [ k \in DOMAIN env_vars \cup DOMAIN credentials.map |->
             IF k \in DOMAIN env_vars THEN env_vars[k] ELSE credentials.map[k] ]

\* for (key, value) in creds { env_vars.insert(key, value) }; credentials is
\* the Option: some is FALSE for None
inject_credentials(env_vars, credentials) ==
    IF ~credentials.some THEN env_vars
    ELSE [ k \in DOMAIN env_vars \cup DOMAIN credentials.map |->
             IF k \in DOMAIN credentials.map THEN credentials.map[k]
             ELSE env_vars[k] ]

\* get_credential over the credentials stored for the server when
\* kv_get_direct succeeds: the value, or None
get_credential(store, credential_name) ==
    IF credential_name \in DOMAIN store THEN store[credential_name] ELSE None

\* The name of the environment variable the auth method binds the credential
\* credential_name to
AuthEnvName(auth_method, credential_name) ==
    CASE credential_name = "api_key" -> auth_method.key_field
      [] credential_name = "client_id" -> "CLIENT_ID"
      [] OTHER -> "CLIENT_SECRET"

\* if let Some(value) = self.get_credential(..).await? { env_vars.insert(..) }
\* for what one get_credential call returned
inject_auth(env_vars, auth_method, credential_name, value) ==
    IF value # None
    THEN insert(env_vars, AuthEnvName(auth_method, credential_name), value)
    ELSE env_vars

\* let mut env_vars = connection.config.env.clone()
EnvClone ==
    /\ env_build.pc = "clone"
    /\ env_build' = [env_build EXCEPT !.pc = "credentials",
                                      !.env_vars = env_build.config_env]
    /\ UNCHANGED <<mcp_vars, servers, procs, reg, tool_probe, cleanup, integration>>

\* if let Some(creds) = credentials { .. }, up to the match on auth_method
EnvInjectCredentials ==
    /\ env_build.pc = "credentials"
    /\ env_build' = [env_build EXCEPT
          !.pc = "auth",
          !.todo = CredentialLookups(env_build.auth_method),
          !.env_vars = inject_credentials(env_build.env_vars,
                                          env_build.credentials)]
    /\ UNCHANGED <<mcp_vars, servers, procs, reg, tool_probe, cleanup, integration>>

\* One get_credential(..).await of the arm ApiKey or OAuth2 returns and what it
\* found is inserted: the value stored at this moment, or None when
\* kv_get_direct fails
EnvGetCredential ==
    /\ env_build.pc = "auth"
    /\ env_build.todo # <<>>
    /\ LET name == Head(env_build.todo)
       IN  \E value \in {get_credential(env_build.store, name), None} :
              env_build' = [env_build EXCEPT
                  !.todo = Tail(@),
                  !.found = insert(@, name, value),
                  !.env_vars = inject_auth(@, env_build.auth_method, name, value)]
    /\ UNCHANGED <<mcp_vars, servers, procs, reg, tool_probe, cleanup, integration>>

\* The match on auth_method ends: the arm Basic inserts the username and the
\* password of the configuration, the arm None nothing, the other arms have
\* made their lookups; afterwards env_vars is what the child is given
EnvInjectAuth ==
    /\ env_build.pc = "auth"
    /\ env_build.todo = <<>>
    /\ env_build' = [env_build EXCEPT
          !.pc = "built",
          !.env_vars =
              IF env_build.auth_method.kind = "Basic"
              THEN insert(insert(@, "USERNAME", "basic username"),
                          "PASSWORD", "basic password")
              ELSE @]
    /\ UNCHANGED <<mcp_vars, servers, procs, reg, tool_probe, cleanup, integration>>

\* Another request writes the key-value table while connect_server builds the
\* environment (the table is not under the lock of the registry): a credential
\* of the server is stored, or one that is stored is deleted
EnvStoreChanges ==
    /\ env_build.pc \in {"clone", "credentials", "auth"}
    /\ \E name \in CredentialNames :
          env_build' = [env_build EXCEPT
              !.store = IF name \in DOMAIN @ THEN kv_delete(@, name)
                        ELSE kv_set_direct(@, name, "stored " \o name)]
    /\ UNCHANGED <<mcp_vars, servers, procs, reg, tool_probe, cleanup, integration>>

\* A connect_server call with any configuration, credentials and store
InitEnv ==
    /\ InitTables([DEFAULT_TENANT_ID |-> None, DEFAULT_USER_ID |-> None,
                   DEV_MODE |-> TRUE])
    /\ tool_probe = NoToolProbe
    /\ cleanup = NoCleanup
    /\ integration = NoIntegration
    /\ \E config_env \in MapsTo(EnvKeys, "config"),
          credentials \in {[some |-> FALSE, map |-> <<>>]} \cup
                          { [some |-> TRUE, map |-> m] : m \in MapsTo(EnvKeys, "call") },
          auth_method \in AuthMethods,
          stored \in SUBSET CredentialNames :
          env_build = [ pc |-> "clone", config_env |-> config_env,
                        credentials |-> credentials, auth_method |-> auth_method,
                        store |-> [n \in stored |-> "stored " \o n],
                        todo |-> <<>>, found |-> <<>>, env_vars |-> <<>> ]

NextEnv ==
    \/ EnvClone
    \/ EnvInjectCredentials
    \/ EnvGetCredential
    \/ EnvInjectAuth
    \/ EnvStoreChanges

SpecEnv == InitEnv /\ [][NextEnv]_vars

(***************************************************************************)
(* SpecTools: list_tools and a tools/call for a session of any role        *)
(* (TenantSession::new is public; the server itself only makes sessions    *)
(* of role Admin)                                                          *)
(***************************************************************************)

\* enum UserRole
UserRoles == {"Admin", "User", "Viewer"}

\* The permissions the sessions are drawn from
PermissionSample == {"ReadKV", "WriteKV", "SendEvents", "Read", "Admin"}

\* Tool names a call is made with: every registered name and one that is not
CallNames == DOMAIN handlers \cup {"no_such_tool"}

\* A tools/call request for the tool, with id 0
ToolCallLine(tool_name, args) ==
    Line("ok", "n:0", "tools/call", "t2", "u2", ToolArgs(tool_name, args))

\* handler_registry.list_tools(&session)
ListTools ==
    /\ tool_probe.pc = "ready"
    /\ tool_probe' = [tool_probe EXCEPT !.pc = "listed",
                                        !.listed = list_tools(tool_probe.session)]
    /\ UNCHANGED <<mcp_vars, servers, procs, reg, env_build, cleanup, integration>>

\* The tools/call of the caller (task 1) after a step that left the tables w:
\* the handler goes on, or it has returned (or was never run) and
\* handle_request builds the response
ToolCallGoesOn(w, tool_name, args) ==
    LET result == route(ToolCallLine(tool_name, args), tool_probe.session,
                        w.h[1].result)
    IN  IF w.h[1].pc \in {"idle", "done"}
        THEN /\ Apply([w EXCEPT !.h[1] = NoHandler, !.reg.call[1] = NoCall])
             /\ tool_probe' = [tool_probe EXCEPT
                   !.pc = "called",
                   !.tool_name = tool_name,
                   !.args = args,
                   !.outcome = handle_tool_call(tool_probe.session, tool_name),
                   !.calls_left = @ - 1,
                   !.response = IF result = "ok" THEN ResultResponse("n:0")
                                ELSE ErrorResponse("n:0", result)]
        ELSE /\ Apply(w)
             /\ tool_probe' = [tool_probe EXCEPT
                   !.pc = "calling",
                   !.tool_name = tool_name,
                   !.args = args,
                   !.outcome = handle_tool_call(tool_probe.session, tool_name)]

\* The "tools/call" arm of process_request for the session: handle_tool_call
\* of mcp.rs over handle_tool_call of handlers.rs, up to the first suspension
\* point of the handler it runs
ToolCall(tool_name, args) ==
    /\ tool_probe.pc \in {"listed", "called"}
    /\ tool_probe.calls_left > 0
    /\ \E w \in IF handle_tool_call(tool_probe.session, tool_name) = "run"
                THEN HandlerStart(World, 1, tool_probe.session.context,
                                  tool_name, args)
                ELSE { World } :
          ToolCallGoesOn(w, tool_name, args)
    /\ UNCHANGED <<mcp_vars, env_build, cleanup>>

\* The handler of the call goes on from its suspension point
ToolStep ==
    /\ tool_probe.pc = "calling"
    /\ \E w \in HandlerStep(World, 1, tool_probe.session.context,
                              tool_probe.args) :
          ToolCallGoesOn(w, tool_probe.tool_name, tool_probe.args)
    /\ UNCHANGED <<mcp_vars, env_build, cleanup>>

\* A session of any role with any of the sampled permissions
InitTools ==
    /\ InitTables([DEFAULT_TENANT_ID |-> None, DEFAULT_USER_ID |-> None,
                   DEV_MODE |-> TRUE])
    /\ env_build = NoEnvBuild
    /\ cleanup = NoCleanup
    /\ integration = NoIntegration
    /\ \E role \in UserRoles, permissions \in SUBSET PermissionSample :
          tool_probe = [NoToolProbe EXCEPT
             !.pc = "ready",
             !.calls_left = 2,
             !.session = TenantSession_new(
                [auto_context("t2", "u2") EXCEPT !.role = role,
                                                 !.permissions = permissions], 0)]

\* The arguments of events_analytics: the user and the organization absent or
\* given (a user other than the caller), the time window absent, given as two
\* RFC 3339 times, or given as a startTime that is not one
AnalyticsArgs ==
    { [DefaultArgs EXCEPT !.user_id = u, !.organization_id = o,
                          !.start_time = t[1], !.end_time = t[2]] :
        u \in {None, "user-demo-123"}, o \in {None, "o9"},
        t \in { <<None, None>>,
                <<"2024-01-01T00:00:00Z", "2024-01-02T00:00:00Z">>,
                <<"yesterday", None>> } }

NextTools ==
    \/ ListTools
    \/ \E tool_name \in CallNames, args \in {DefaultArgs, NoArgs} :
          ToolCall(tool_name, args)
    \/ \E args \in AnalyticsArgs : ToolCall("events_analytics", args)
    \/ ToolStep

SpecTools == InitTools /\ [][NextTools]_vars

(***************************************************************************)
(* SpecCleanup: TenantManager::cleanup_expired_sessions called beside       *)
(* handle_request (create_session, then update_activity on the session it  *)
(* created), update_activity by a holder of a session and get_all_sessions *)
(***************************************************************************)

\* chrono::Duration::minutes(30), in ticks
SessionTimeoutMinutes == 30
SessionTimeout == SessionTimeoutMinutes * 60 * TicksPerSecond

\* Duration::from_secs(3600), in ticks
BucketExpirySecs == 3600
BucketExpiry == BucketExpirySecs * TicksPerSecond

Clients == 1 .. NumClients

\* Owners of guards: the clients by their number, and the caller of
\* cleanup_expired_sessions.  Locks: last_activity of session i as i, and the
\* RwLock of TenantManager.sessions
CleanupTask == 0
SessionsLock == 0

\* The keys of TenantManager.sessions
SessionTable == DOMAIN sessions \ cleanup.removed

\* The positions at which a call awaits a lock.  A call at one of them is
\* queued at the lock; once it is granted the guard its position is the same
\* name with "_held".
AwaitPcs == {"keys", "get", "activity", "remove", "create", "all"}

\* The guards alive on the lock leave room for one more of the mode
Compatible(held, lock, mode) ==
    \A g \in held : g[2] = lock => (mode = "read" /\ g[3] = "read")

\* No call is queued at the lock
NoneQueued(waiting, lock) ==
    \A i \in DOMAIN waiting : waiting[i][2] # lock

\* tokio RwLock, a fair (first in, first out) semaphore: read() is granted at
\* once while no write guard is alive and no call is queued at the lock,
\* write() while no guard is alive and no call is queued.  A call queued for
\* write() has taken the permits left, so a later read() queues behind it.
CanRead(c, lock) ==
    Compatible(c.held, lock, "read") /\ NoneQueued(c.waiting, lock)
CanWrite(c, lock) ==
    Compatible(c.held, lock, "write") /\ NoneQueued(c.waiting, lock)

\* lock.read().await or lock.write().await polled by owner: the guard is
\* granted at once, or the call joins the queue of the lock
acquire(c, owner, lock, mode) ==
    IF (mode = "read" /\ CanRead(c, lock)) \/ (mode = "write" /\ CanWrite(c, lock))
    THEN [c EXCEPT !.held = @ \cup {<<owner, lock, mode>>}]
    ELSE [c EXCEPT !.waiting = Append(@, <<owner, lock, mode>>)]

\* The permits released go to the calls queued at the lock, oldest first: the
\* oldest is granted its guard when the guards alive leave room for it, then
\* the next; the first that finds no room keeps every later one waiting
RECURSIVE grant(_, _)
grant(c, lock) ==
    LET queued == { i \in DOMAIN c.waiting : c.waiting[i][2] = lock }
    IN  IF queued = {} THEN c
        ELSE LET i == CHOOSE j \in queued : \A m \in queued : j <= m
                 g == c.waiting[i]
             IN  IF Compatible(c.held, lock, g[3])
                 THEN grant([c EXCEPT
                                !.held = @ \cup {g},
                                !.waiting = SubSeq(@, 1, i - 1)
                                               \o SubSeq(@, i + 1, Len(@))],
                            lock)
                 ELSE c

\* The lock a call of owner at an await position waits for
awaited(c, owner) ==
    IF owner = CleanupTask
    THEN IF c.pc = "activity" THEN c.session ELSE SessionsLock
    ELSE IF c.clients[owner].pc = "activity" THEN c.clients[owner].session
         ELSE SessionsLock

\* The calls that were granted their guard go on to the code under it
settle(c) ==
    LET granted(owner, pc) ==
            /\ pc \in AwaitPcs
            /\ \E g \in c.held : g[1] = owner /\ g[2] = awaited(c, owner)
    IN  [c EXCEPT
            !.pc = IF granted(CleanupTask, c.pc) THEN c.pc \o "_held" ELSE c.pc,
            !.clients = [ k \in DOMAIN c.clients |->
                            IF granted(k, c.clients[k].pc)
                            THEN [c.clients[k] EXCEPT !.pc = @ \o "_held"]
                            ELSE c.clients[k] ]]

\* The guard g is dropped
release(c, g) == grant([c EXCEPT !.held = @ \ {g}], g[2])

\* AwsRateLimiter::cleanup_expired_buckets at time t: retain the buckets
\* refilled less than one hour ago
cleanup_expired_buckets(bks, t) ==
    [ k \in { b \in DOMAIN bks : t - bks[b].last_refill < BucketExpiry } |-> bks[k] ]

\* cleanup_expired_sessions arrives at pc: at an await of a lock it polls the
\* lock (sessions.read() for the keys and for get_session, last_activity.read()
\* of the session looked up, sessions.write() for the removal)
CleanupArrives(c, pc) ==
    LET c1 == [c EXCEPT !.pc = pc]
    IN  settle(CASE pc \in {"keys", "get"} ->
                       acquire(c1, CleanupTask, SessionsLock, "read")
                 [] pc = "activity" ->
                       acquire(c1, CleanupTask, c1.session, "read")
                 [] pc = "remove" ->
                       acquire(c1, CleanupTask, SessionsLock, "write")
                 [] OTHER -> c1)

\* cleanup_expired_sessions is called: let now = Utc::now(), then step 1 polls
\* sessions.read().await
CleanupStart ==
    /\ cleanup.pc = "idle"
    /\ cleanup' = CleanupArrives([cleanup EXCEPT !.now = now], "keys")
    /\ UNCHANGED <<mcp_vars, servers, procs, reg, env_build, tool_probe, integration>>

\* Where the loop of step 2 goes once the keys left to check are ks and the
\* expired ones are ex: the next key, step 3, or past step 3 when nothing
\* expired
AfterKey(ks, ex) ==
    IF ks # {} THEN "get" ELSE IF ex # {} THEN "remove" ELSE "buckets"

\* The loop of step 2 goes on from c, whose keys and expired are up to date:
\* get_session(&key) for a key not yet checked (the order of a HashMap's keys
\* is not determined), or step 3, or the buckets
CleanupGoesOn(c) ==
    IF c.keys # {}
    THEN { CleanupArrives([c EXCEPT !.session = key], "get") : key \in c.keys }
    ELSE { CleanupArrives(c, AfterKey(c.keys, c.expired)) }

\* Step 2 as a bug would have it: the read guard of the sessions table taken by
\* the lookup of the key is kept while last_activity is read
CleanupLookup_keeps_guard ==
    /\ cleanup.pc = "get_held"
    /\ cleanup' \in
          IF cleanup.session \in SessionTable
          THEN { CleanupArrives(cleanup, "activity") }
          ELSE CleanupGoesOn([cleanup EXCEPT !.keys = @ \ {cleanup.session}])
    /\ UNCHANGED <<sessions, buckets>>

\* self.get_session(&key) returns: its read guard is dropped; Some(session)
\* when the key is still in the table, and then last_activity.read().await is
\* polled
CleanupLookup ==
    /\ cleanup.pc = "get_held"
    /\ LET c == release(cleanup, <<CleanupTask, SessionsLock, "read">>)
       IN  cleanup' \in
              IF cleanup.session \in SessionTable
              THEN { CleanupArrives(c, "activity") }
              ELSE CleanupGoesOn([c EXCEPT !.keys = @ \ {cleanup.session}])
    /\ UNCHANGED <<sessions, buckets>>

\* cleanup_expired_sessions, one step: the code under a guard runs, the guard
\* is dropped and the call runs on to its next await, where it polls the lock.
\* A call queued at a lock (keys, get, activity, remove) has no step of its
\* own: it goes on when a guard dropped by another call lets it in.
\*   keys_held       step 1, the keys of the table under its read lock
\*   get_held        step 2, get_session(&key) under the read lock of the table
\*   activity_held   step 2, *session.last_activity.read().await and the
\*                   comparison with the timeout
\*   remove_held     step 3, the removal under the write lock
\*   buckets         aws_rate_limiter.cleanup_expired_buckets()
CleanupStep ==
    /\ \/ /\ cleanup.pc = "keys_held"
          /\ cleanup' \in
                CleanupGoesOn(
                   [release(cleanup, <<CleanupTask, SessionsLock, "read">>)
                       EXCEPT !.keys = SessionTable])
          /\ UNCHANGED <<sessions, buckets>>
       \/ CleanupLookup
       \/ /\ cleanup.pc = "activity_held"
          /\ LET last_activity == sessions[cleanup.session].last_activity
                 ex == IF cleanup.now - last_activity >= SessionTimeout
                       THEN cleanup.expired \cup {cleanup.session}
                       ELSE cleanup.expired
                 ks == cleanup.keys \ {cleanup.session}
             IN  cleanup' \in
                    CleanupGoesOn(
                       [release(cleanup, <<CleanupTask, cleanup.session, "read">>)
                           EXCEPT !.expired = ex, !.keys = ks])
          /\ UNCHANGED <<sessions, buckets>>
       \/ /\ cleanup.pc = "remove_held"
          /\ cleanup' =
                settle([release(cleanup, <<CleanupTask, SessionsLock, "write">>)
                           EXCEPT !.removed = @ \cup cleanup.expired,
                                  !.pc = "buckets"])
          /\ UNCHANGED <<sessions, buckets>>
       \/ /\ cleanup.pc = "buckets"
          /\ buckets' = cleanup_expired_buckets(buckets, now)
          /\ cleanup' = [cleanup EXCEPT !.pc = "done"]
          /\ UNCHANGED sessions
    /\ UNCHANGED <<servers, procs, reg, env_build, tool_probe, integration, env, tenant_configs, now, charges,
                   last_charge, calls, hist, admitted, run, out_buf, stdout>>

\* Caller k arrives at pc: at an await of a lock it polls the lock
\* (sessions.write() of create_session, last_activity.write() of
\* update_activity, sessions.read() of get_all_sessions)
ClientArrives(c, k, pc) ==
    LET c1 == [c EXCEPT !.clients[k].pc = pc]
    IN  settle(CASE pc = "create" -> acquire(c1, k, SessionsLock, "write")
                 [] pc = "activity" -> acquire(c1, k, c1.clients[k].session, "write")
                 [] pc = "all" -> acquire(c1, k, SessionsLock, "read")
                 [] OTHER -> c1)

\* A caller makes its call, one of the operations that run beside the cleanup:
\* handle_request with an initialize request of the demo tenant, update_activity
\* on a session it holds, get_all_sessions.  The callers are numbered in the
\* order of their calls.  handle_request runs up to sessions.write().await of
\* create_session: the tenant is validated, its context is read and the
\* session is built (TenantSession::new takes the time).  Each call runs up to
\* its first await of a lock and polls it.
ClientCall(k, op, s) ==
    /\ cleanup.clients[k].pc = "idle"
    /\ \A j \in Clients : j < k => cleanup.clients[j].pc # "idle"
    /\ op = "update_activity" => s \in DOMAIN sessions
    /\ op # "update_activity" => s = 0
    /\ cleanup' = ClientArrives(
          [cleanup EXCEPT
             !.clients[k] = [op |-> op, session |-> s,
                             built |-> IF op = "handle_request"
                                       THEN TenantSession_new(demo_context, now)
                                       ELSE None,
                             pc |-> "idle"]],
          k,
          CASE op = "handle_request" -> "create"
            [] op = "update_activity" -> "activity"
            [] OTHER -> "all")
    /\ UNCHANGED <<mcp_vars, servers, procs, reg, env_build, tool_probe, integration>>

\* One step of a caller: the code under a guard runs, the guard is dropped and
\* the call runs on to its next await.  A caller queued at a lock (create,
\* activity, all) has no step of its own.
\*   create_held     create_session: the insert under sessions.write()
\*   incr            process_request: check_rate_limit (a new session passes),
\*                   increment_request_count, increment_active_requests,
\*                   RequestGuard::new, then update_activity polls
\*                   last_activity.write().await
\*   activity_held   update_activity: the assignment under the write guard
\*   drop            handle_initialize returns and the guard is dropped
\*   all_held        get_all_sessions: the values under sessions.read()
ClientStep(k) ==
    LET me == cleanup.clients[k]
        id == Len(sessions) + 1
    IN  /\ \/ /\ me.pc = "create_held"
              /\ sessions' = Append(sessions, me.built)
              /\ cleanup' =
                    settle([release(cleanup, <<k, SessionsLock, "write">>)
                               EXCEPT !.clients[k].session = id,
                                      !.clients[k].built = None,
                                      !.clients[k].pc = "incr"])
           \/ /\ me.pc = "incr"
              /\ sessions' = [sessions EXCEPT ![me.session] =
                                 increment_active_requests(increment_request_count(@))]
              /\ cleanup' = ClientArrives(cleanup, k, "activity")
           \/ /\ me.pc = "activity_held"
              /\ sessions' = [sessions EXCEPT ![me.session].last_activity = now]
              /\ cleanup' =
                    settle([release(cleanup, <<k, me.session, "write">>)
                               EXCEPT !.clients[k].pc =
                                         IF me.op = "handle_request" THEN "drop"
                                         ELSE "returned"])
           \/ /\ me.pc = "drop"
              /\ sessions' = [sessions EXCEPT ![me.session] =
                                 RequestGuard_drop(@, "ok")]
              /\ cleanup' = [cleanup EXCEPT !.clients[k].pc = "returned"]
           \/ /\ me.pc = "all_held"
              /\ cleanup' =
                    settle([release(cleanup, <<k, SessionsLock, "read">>)
                               EXCEPT !.clients[k].pc = "returned"])
              /\ UNCHANGED sessions
        /\ UNCHANGED <<servers, procs, reg, env_build, tool_probe, integration, env, tenant_configs, buckets, now,
                       charges, last_charge, calls, hist, admitted, run, out_buf,
                       stdout>>

\* The instants looked at: the start and the timeout of a session created at
\* the start
ClockValues == {0, SessionTimeout}

\* TenantManager::new with DEV_MODE: the demo tenant exists, there is no
\* session and the limiter has no bucket
InitCleanup ==
    InitIn([DEFAULT_TENANT_ID |-> None, DEFAULT_USER_ID |-> None, DEV_MODE |-> TRUE])

NextCleanup ==
    \/ CleanupStart
    \/ CleanupStep
    \/ \E k \in Clients, op \in {"handle_request", "get_all_sessions"} :
          ClientCall(k, op, 0)
    \/ \E k \in Clients, s \in DOMAIN sessions : ClientCall(k, "update_activity", s)
    \/ \E k \in Clients : ClientStep(k)
    \/ \E t \in ClockValues : Elapse(t)

SpecCleanup == InitCleanup /\ [][NextCleanup]_vars

\* The instants looked at while the stdio loop runs: the start, just after the
\* timeout of a session and just after the expiry of a bucket of the start
RunClockValues == {0, SessionTimeout + 1, BucketExpiry + 1}

\* The stdio loop (SpecRun) with the clock running.  Neither run nor main nor
\* any handler calls cleanup_expired_sessions or cleanup_expired_buckets, so
\* the loop has no step that does.
NextRunClock ==
    \/ NextRun
    \/ \E t \in RunClockValues : Elapse(t)

\* Every step of the server is taken when it stays possible; the client is
\* free to send a record, to close the input or to do neither
SpecRunClock ==
    /\ Init
    /\ [][NextRunClock]_vars
    /\ WF_vars(CallStep(1))
    /\ WF_vars(HandleReturned)
    /\ WF_vars(WriteJson)
    /\ WF_vars(WriteNewline)
    /\ WF_vars(Flush)
    /\ WF_vars(WaitForActiveRequests)
    /\ WF_vars(Exit)


(***************************************************************************)
(* SpecCredential: a session that registers a sub-server, connects to it   *)
(* or disconnects from it: IntegrationConnectHandler::handle stores the    *)
(* credentials of the call in the key-value table and connect_server reads *)
(* the credentials of the auth method back (get_credential)                *)
(***************************************************************************)

\* The sessions that call the tools: the demo tenant, an auto-registered
\* tenant (both Organization, the only kind the server builds) and a Personal
\* context (TenantSession::new is public)
CredentialContexts ==
    { demo_context,
      auto_context("t2", "u2"),
      [auto_context("t2", "u2") EXCEPT
          !.context_type = [kind |-> "Personal", org_id |-> None]] }

\* The arguments of integration_register: any server id and auth method, the
\* server type absent or Http
RegisterArgs ==
    { [DefaultArgs EXCEPT !.service_id = i, !.auth_method = a, !.server_type = ty] :
        i \in ServerIds, a \in AuthMethods, ty \in {None, "Http"} }

\* The arguments of integration_connect: any server id, without credentials or
\* with any of the credentials the auth methods look up
ConnectArgs ==
    { [DefaultArgs EXCEPT !.service_id = i, !.credentials = cr] :
        i \in ServerIds,
        cr \in {[some |-> FALSE, map |-> <<>>]} \cup
               { [some |-> TRUE, map |-> [n \in given |-> "given " \o n]] :
                    given \in SUBSET CredentialNames } }

\* The arguments of integration_disconnect: any server id
DisconnectArgs == { [DefaultArgs EXCEPT !.service_id = i] : i \in ServerIds }

\* One of the sessions, which makes two calls
InitCredential ==
    /\ InitTables([DEFAULT_TENANT_ID |-> None, DEFAULT_USER_ID |-> None,
                   DEV_MODE |-> TRUE])
    /\ env_build = NoEnvBuild
    /\ cleanup = NoCleanup
    /\ integration = NoIntegration
    /\ \E context \in CredentialContexts :
          tool_probe = [NoToolProbe EXCEPT
             !.pc = "listed",
             !.calls_left = 2,
             !.session = TenantSession_new(context, 0),
             !.listed = list_tools(TenantSession_new(context, 0))]

NextCredential ==
    \/ \E args \in RegisterArgs : ToolCall("integration_register", args)
    \/ \E args \in ConnectArgs : ToolCall("integration_connect", args)
    \/ \E args \in DisconnectArgs : ToolCall("integration_disconnect", args)
    \/ ToolStep

SpecCredential == InitCredential /\ [][NextCredential]_vars

(***************************************************************************)
(* Properties                                                              *)
(***************************************************************************)

IsPrefix(p, q) == Len(p) <= Len(q) /\ SubSeq(q, 1, Len(p)) = p

\* The output the records handled so far call for: for every record whose
\* handle_request returned a response, in the order the records were read, one
\* line made of the serialized response and "\n"
RECURSIVE ExpectedOutput(_)
ExpectedOutput(log) ==
    IF log = <<>> THEN <<>>
    ELSE LET e == Head(log)
         IN  (IF e.resp.kind = "none" THEN <<>>
              ELSE <<JsonChunk(e.seq, e.resp), NewlineChunk(e.seq)>>)
             \o ExpectedOutput(Tail(log))

\* C1: in the stdio loop, whenever the loop is about to read a record or is
\* handling one, the response line of every earlier record that has one is
\* completely delivered on stdout and nothing is pending; what is written is
\* always a prefix of the responses in the order the records were read, one
\* line per record at most.
C1_ResponsesInOrder ==
    /\ IsPrefix(stdout \o out_buf, ExpectedOutput(run.log))
    /\ run.pc \in {"read", "handling"} =>
          /\ out_buf = <<>>
          /\ stdout = ExpectedOutput(run.log)

\* Two records were read, each got its response line, and the loop is ready to
\* read again
C1_Witness ==
    /\ run.pc = "read"
    /\ run.nread = 2
    /\ Len(stdout) = 4
    /\ stdout[1].seq = 1 /\ stdout[3].seq = 2

InDispatch == {"activity", "dispatch", "handler", "drop"}

\* C2: a call that passed the rate checks has incremented its session's
\* active_requests exactly once while it is in dispatch and has decremented it
\* exactly once when it returns, on every exit path; once every call has
\* returned the sum of active_requests over all sessions is 0.
C2_ActiveRequestsBalanced ==
    /\ \A c \in Calls :
          /\ calls[c].pc \in InDispatch =>
                sessions[calls[c].session].active_requests = 1
          /\ calls[c].pc = "returned" /\ calls[c].session # 0 =>
                sessions[calls[c].session].active_requests = 0
    /\ (\A c \in Calls : calls[c].pc = "returned") => get_total_active_requests = 0

\* Both calls passed the checks and returned, one with a result and one with
\* an error raised in dispatch
C2_Witness ==
    /\ \A c \in Calls : calls[c].pc = "returned" /\ hist[c].incs = 1
    /\ \E c \in Calls : calls[c].resp.kind = "result"
    /\ \E c \in Calls : calls[c].resp.code \in {-32003, -32601}

\* C3: in every reachable state every session's active_requests is between 0
\* and the max_concurrent_requests of its context.
C3_ActiveRequestsInRange ==
    \A i \in 1 .. Len(sessions) :
        /\ 0 <= sessions[i].active_requests
        /\ sessions[i].active_requests
              <= sessions[i].context.resource_limits.max_concurrent_requests

\* Two overlapping calls are in dispatch, each with its counter raised
C3_Witness ==
    /\ \A c \in Calls : calls[c].pc \in InDispatch
    /\ \A i \in 1 .. Len(sessions) : sessions[i].active_requests > 0

\* C4 (as claimed): at no time are more than max_concurrent_requests requests
\* of the same tenant in dispatch, between the increment of the counter and
\* the drop of the guard.
C4_TenantConcurrencyBounded ==
    \A t \in Tenants :
        Cardinality({c \in Calls : calls[c].tenant = t /\ calls[c].pc \in InDispatch})
            <= MaxConcurrentRequests

\* C5 (as claimed): a request is admitted (reaches the increment of the
\* counters) only while fewer than requests_per_minute requests of its
\* principal have been admitted; from then on it is refused with -32001.
C5_RefusedPastRequestsPerMinute ==
    \A c \in Calls :
        calls[c].pc = "incr" => admitted[calls[c].tenant] < RequestsPerMinute

\* C6: every rate bucket holds between 0 and capacity tokens.
C6_TokensInRange ==
    \A k \in DOMAIN buckets :
        /\ 0 <= buckets[k].tokens
        /\ buckets[k].tokens <= buckets[k].capacity * TicksPerSecond

\* A bucket that was refilled after time passed and then debited to 0, next to
\* a bucket refilled to its capacity
C6_Witness ==
    /\ \E k \in DOMAIN buckets : buckets[k].tokens = 0 /\ buckets[k].last_refill > 0
    /\ \E k \in DOMAIN buckets :
          /\ buckets[k].tokens = buckets[k].capacity * TicksPerSecond
          /\ buckets[k].capacity > 0

\* The bucket of tenant t for operation kind k in table bks, None if absent
BucketOf(bks, t, k) ==
    IF bucket_key(t, Op(k, 0)) \in DOMAIN bks
    THEN bks[bucket_key(t, Op(k, 0))]
    ELSE [tokens |-> -1, last_refill |-> -1, capacity |-> -1, refill_rate |-> -1]

\* C7: a check_aws_operation call for tenant T1 leaves every bucket of every
\* other tenant as it was (absent or with the same tokens), and the first
\* charge of a tenant that costs no more than the capacity is allowed whatever
\* the other tenants did before.
C7_TenantIsolation ==
    [][ charges' # charges =>
          /\ \A t \in LimiterTenants, k \in OpKinds :
                t # last_charge'.tenant =>
                    BucketOf(buckets', t, k) = BucketOf(buckets, t, k)
          /\ LET op == last_charge'.op
                 lim == get_limits_for_operation(op)
             IN  /\ BucketOf(buckets, last_charge'.tenant, op.kind).capacity = -1
                 /\ lim[3] <= lim[1]
                 => last_charge'.allowed
      ]_vars

\* Tenant T1 was just refused on its exhausted bucket, and right after that
\* the charge of another tenant T2 on the same operation class was allowed
C7_Witness ==
    /\ last_charge.prev_tenant # None
    /\ last_charge.prev_tenant # last_charge.tenant
    /\ last_charge.prev_kind = last_charge.op.kind
    /\ ~last_charge.prev_allowed
    /\ BucketOf(buckets, last_charge.prev_tenant, last_charge.prev_kind).tokens = 0
    /\ last_charge.allowed
    /\ get_limits_for_operation(last_charge.op)[3] > 0

\* C8: a charge made at time now on a bucket (a new bucket counts as full,
\* refilled at now) first refills it to min(capacity, tokens + elapsed * rate)
\* and sets last_refill to now; it is allowed iff the refilled tokens cover the
\* cost, subtracts exactly the cost when allowed, and leaves the refilled
\* value when denied.
C8_ChargeSemantics ==
    [][ charges' # charges =>
          LET op == last_charge'.op
              t == last_charge'.tenant
              cost == get_limits_for_operation(op)[3] * TicksPerSecond
              old == BucketOf(buckets, t, op.kind)
              new == BucketOf(buckets', t, op.kind)
              full == new.capacity * TicksPerSecond
              refilled == IF old.capacity = -1 THEN full
                          ELSE Min(full, old.tokens
                                         + (now - old.last_refill) * old.refill_rate)
          IN  /\ new.last_refill = now
              /\ new.capacity = get_limits_for_operation(op)[1]
              /\ last_charge'.allowed <=> refilled >= cost
              /\ new.tokens = IF last_charge'.allowed THEN refilled - cost
                              ELSE refilled
      ]_vars

\* A denied charge on a bucket that time had partly refilled: the tokens stay
\* at the refilled value, strictly between 0 and the capacity
C8_Witness ==
    /\ last_charge.tenant # None
    /\ ~last_charge.allowed
    /\ LET b == BucketOf(buckets, last_charge.tenant, last_charge.op.kind)
       IN  /\ b.last_refill = now
           /\ now > 0
           /\ 0 < b.tokens
           /\ b.tokens < b.capacity * TicksPerSecond
           /\ charges >= 2

\* C9: the per-session check is made before the limiter is called, a request
\* refused by the per-session check has not called the limiter, and a request
\* refused by either check has incremented neither request_count nor
\* active_requests and never held a guard.
C9_RefusedBeforeCounting ==
    \A c \in Calls :
        /\ calls[c].pc = "aws" \/ hist[c].debited => hist[c].checked
        /\ hist[c].refused = "legacy" => ~hist[c].debited
        /\ hist[c].refused # None =>
              /\ calls[c].pc = "returned"
              /\ calls[c].resp = ErrorResponse(ParseId(calls[c].line.id),
                                               "RateLimitExceeded")
              /\ sessions[calls[c].session].request_count = 0
              /\ sessions[calls[c].session].active_requests = 0
              /\ hist[c].incs = 0
              /\ hist[c].decs = 0

\* A tools/call was refused by the token bucket after the per-session check
\* had passed
C9_Witness ==
    \E c \in Calls :
        /\ hist[c].refused = "aws"
        /\ hist[c].checked
        /\ calls[c].resp.code = -32001

\* C10: for a record that parses, handle_request returns no response exactly
\* when the id member is absent or null, whatever the method; with any other
\* id, 0 and "" included, it returns one response.
C10_NoResponseIffNoId ==
    \A c \in Calls :
        calls[c].pc = "returned" /\ calls[c].line.shape = "ok" =>
            (calls[c].resp.kind = "none" <=> calls[c].line.id \in {"absent", "null"})

\* A record with id 0 and a record with id "" were answered, the first one
\* although its method is that of a notification
C10_Witness ==
    /\ Len(run.log) = 2
    /\ run.log[1].resp.id = "n:0" /\ run.log[1].resp.kind = "result"
    /\ run.log[2].resp.id = "s:" /\ run.log[2].resp.kind # "none"
    /\ calls[1].pc = "idle"

\* C11: in the stdio loop a request passes validate_tenant_access only if its
\* tenant is configured with the user of the request, or the tenant is unknown
\* and DEFAULT_TENANT_ID is set; in the second case the tenant is inserted
\* with role Admin and the one permission Admin for that user.  Any other
\* request is answered with a tenant error (-32002) and creates no session and
\* no tenant; every session created carries the user of its request.
C11_AdmissionPolicy ==
    [][ \A c \in Calls :
          LET T == calls[c].tenant
              U == calls[c].user
              known == T \in DOMAIN tenant_configs
          IN  /\ calls[c].pc = "validate" /\ calls'[c].pc # "validate" =>
                    /\ calls'[c].pc = "create" <=>
                          known /\ tenant_configs[T].user_id = U
                    /\ calls'[c].pc = "register" <=>
                          ~known /\ env.DEFAULT_TENANT_ID # None
                    /\ calls'[c].pc \notin {"create", "register"} =>
                          /\ calls'[c].pc = "returned"
                          /\ calls'[c].resp =
                                ErrorResponse(ParseId(calls[c].line.id), "TenantError")
                          /\ calls'[c].session = 0
                    /\ sessions' = sessions
                    /\ tenant_configs' = tenant_configs
              /\ calls[c].pc = "register" /\ calls'[c].pc # "register" =>
                    /\ calls'[c].pc = "create"
                    /\ tenant_configs'[T].user_id = U
                    /\ tenant_configs'[T].role = "Admin"
                    /\ tenant_configs'[T].permissions = {"Admin"}
                    /\ sessions' = sessions
              /\ calls'[c].session # 0 =>
                    /\ sessions'[calls'[c].session].context.tenant_id = calls'[c].tenant
                    /\ sessions'[calls'[c].session].context.user_id = calls'[c].user
      ]_vars

\* A request naming the demo tenant with another user was answered with
\* -32002, and the next request, for an unknown tenant, has a session on the
\* tenant that was auto-registered for it
C11_Witness ==
    /\ Len(run.log) = 1
    /\ run.log[1].resp.code = -32002
    /\ Len(sessions) = 1
    /\ calls[1].session = 1
    /\ calls[1].tenant = "t2"
    /\ "demo-tenant" \in DOMAIN tenant_configs
    /\ sessions[1].context = auto_context("t2", calls[1].user)

\* C12: once end-of-input was read the shutdown flag is set and no further
\* record is read or handled; wait_for_active_requests returns (at once when
\* the sum of active_requests is 0, and after at most MaxWaitIntervals sleeps
\* otherwise), and the process then exits with status 0.
C12_DrainTerminates ==
    /\ [][ run.shutdown_flag =>
             /\ run'.shutdown_flag
             /\ run'.nread = run.nread
             /\ calls' = calls
             /\ run'.waited <= MaxWaitIntervals
             /\ run.pc = "drain" /\ get_total_active_requests = 0 =>
                   run'.pc = "main" /\ run'.result = "ok" ]_vars
    /\ (run.shutdown_flag /\ ~run.read_error) ~>
          (run.pc = "exited" /\ run.status = 0)

\* The process has exited with status 0 after end-of-input that followed a
\* handled request
C12_Witness ==
    /\ run.pc = "exited"
    /\ run.status = 0
    /\ run.shutdown_flag
    /\ ~run.read_error
    /\ Len(sessions) >= 1
    /\ get_total_active_requests = 0

\* C13 (as claimed): a process that exits after a read error on the input
\* stream exits with a non-zero status.
C13_ReadErrorExitsNonZero ==
    run.pc = "exited" /\ run.read_error => run.status # 0


\* A registry call begins and returns in one step: a call is counted and no
\* task is in another call than before
CallReturnsAtOnce ==
    /\ reg'.ops = reg.ops + 1
    /\ \A c \in Calls : reg'.call[c].op = reg.call[c].op

\* A registry call returns in this step (a call that its caller gives up
\* does not return)
CallReturns ==
    /\ reg'.last.result # "Cancelled"
    /\ \/ CallReturnsAtOnce
       \/ \E c \in Calls : reg.call[c].op # None /\ reg'.call[c].op = None

\* C14: once the input is closed, every entry that is Connected eventually
\* receives a disconnect call (before the process exits).
C14_ConnectedDisconnectedOnShutdown ==
    \A k \in RegKeys :
        (reg.stdin_closed /\ k \in DOMAIN servers /\ servers[k].status = "Connected")
            ~> (reg.last.op = "disconnect" /\ reg.last.key = k)

\* C15: every connect_server call that got as far as starting the child
\* eventually returns.
C15_ConnectServerReturns ==
    \A c \in RegCallers :
        (reg.call[c].op = "connect" /\ reg.call[c].pc = "initialize")
            ~> (reg.call[c].op = None)

\* C16: a connect_server call whose child fails to start returns
\* ConnectionFailed, leaves the entry Failed with a reason and records no
\* handle; a connect_server call on a Failed Stdio entry is accepted (the entry
\* becomes Connecting and the call goes on to its credential lookups and the
\* start).  A call that its caller gives up during docker run does not return
\* and is not a case of the claim.
C16_FailedStartRecorded ==
    /\ [][ \A c \in RegCallers :
             (reg.call[c].op = "connect" /\ reg.call[c].pc = "start"
              /\ reg'.call[c].op = None /\ CallReturns)
             => /\ servers'[reg.call[c].key].status = "Failed"
                /\ servers'[reg.call[c].key].reason # None
                /\ servers'[reg.call[c].key].process
                      = servers[reg.call[c].key].process
                /\ servers'[reg.call[c].key].container_id
                      = servers[reg.call[c].key].container_id
                /\ procs' = procs
                /\ reg'.last.op = "connect"
                /\ reg'.last.key = reg.call[c].key
                /\ reg'.last.result = "ConnectionFailed" ]_vars
    /\ [][ \A k \in RegKeys :
             ( /\ k \in DOMAIN servers
               /\ servers[k].status = "Failed"
               /\ servers[k].config.server_type = "Stdio" )
             => /\ ~(CallReturnsAtOnce /\ reg'.last.op = "connect"
                                       /\ reg'.last.key = k)
                /\ \A c \in RegCallers :
                      ( /\ reg.call[c].op = None
                        /\ reg'.call[c].op = "connect"
                        /\ reg'.call[c].key = k )
                      => /\ reg'.call[c].pc \in {"credential", "start"}
                         /\ servers'[k].status = "Connecting" ]_vars

\* A second connect_server call is starting the child of an entry whose first
\* start failed
C16_Witness ==
    \E c \in RegCallers :
        /\ reg.call[c].op = "connect"
        /\ reg.call[c].pc = "start"
        /\ reg.last.op = "connect"
        /\ reg.last.key = reg.call[c].key
        /\ reg.last.result = "ConnectionFailed"
        /\ servers[reg.call[c].key].reason # None

\* C17: disconnect_server on an entry that is Disconnected (or on a key
\* without entry) succeeds and changes neither the table nor any child: the
\* entry stays Disconnected with no process, no container id, no endpoint and
\* an empty tool list; and two disconnect_server calls in a row leave what one
\* leaves.
C17_DisconnectIdempotent ==
    /\ [][ (CallReturns /\ reg'.last.op = "disconnect")
           => /\ reg'.last.result = "Ok"
              /\ (reg'.last.key \notin DOMAIN servers
                  \/ servers[reg'.last.key].status = "Disconnected")
                 => (servers' = servers /\ procs' = procs) ]_vars
    /\ [](\A k \in RegKeys, a \in BOOLEAN, b \in BOOLEAN :
            LET once == disconnect_server(servers, procs, k, a)
                twice == disconnect_server(once.servers, once.procs, k, b)
            IN  /\ twice = once
                /\ k \in DOMAIN servers
                   => /\ once.servers[k].status = "Disconnected"
                      /\ once.servers[k].process = 0
                      /\ once.servers[k].container_id = 0
                      /\ once.servers[k].endpoint = None
                      /\ once.servers[k].tools = <<>>
                /\ (k \in DOMAIN servers /\ servers[k].status = "Disconnected")
                   => (once.servers = servers /\ once.procs = procs))

\* disconnect_server has returned from a third call, on a registered entry
\* that is Disconnected
C17_Witness ==
    /\ reg.ops >= 3
    /\ reg.last.op = "disconnect"
    /\ reg.last.result = "Ok"
    /\ reg.last.key \in DOMAIN servers
    /\ servers[reg.last.key].status = "Disconnected"

\* C18: register_server, when the configuration was persisted, inserts under
\* the key of (tenant, id) an entry that is Disconnected with no process, no
\* container id, no endpoint and an empty tool list, leaves every other entry
\* alone and starts no child; when persisting fails it returns the error and
\* leaves the table as it was.
C18_RegisterInsertsDisconnected ==
    [][ (CallReturns /\ reg'.last.op = "register")
        => /\ procs' = procs
           /\ reg'.last.result \in {"Ok", "StorageError"}
           /\ reg'.last.result = "StorageError" => servers' = servers
           /\ reg'.last.result = "Ok"
              => /\ DOMAIN servers' = DOMAIN servers \cup {reg'.last.key}
                 /\ \A k \in DOMAIN servers :
                       k # reg'.last.key => servers'[k] = servers[k]
                 /\ servers'[reg'.last.key].status = "Disconnected"
                 /\ servers'[reg'.last.key].process = 0
                 /\ servers'[reg'.last.key].container_id = 0
                 /\ servers'[reg'.last.key].endpoint = None
                 /\ servers'[reg'.last.key].tools = <<>>
                 /\ \E t \in RegContexts :
                       reg_key(t, servers'[reg'.last.key].config.id) = reg'.last.key
       ]_vars

\* One registration was stored and inserted, the next one failed to persist
\* under another key and inserted nothing
C18_Witness ==
    /\ reg.last.op = "register"
    /\ reg.last.result = "StorageError"
    /\ reg.last.key \notin DOMAIN servers
    /\ \E k \in DOMAIN servers :
          /\ servers[k].status = "Disconnected"
          /\ registry_key("org-a", servers[k].config.id) \in DOMAIN integration.kv

\* C19: execute_tool forwards a call only when the entry exists, is Connected
\* and has the tool in its cached tool list, and returns an error otherwise; it
\* never changes the entry.  (The second part applies the operator to every
\* entry value; execute_tool reads only the entry under the key, so the part
\* does not depend on the state and is evaluated before the first call.)
C19_ExecuteToolGuarded ==
    /\ [][ (CallReturns /\ reg'.last.op = "execute")
           => /\ servers' = servers
              /\ procs' = procs
              /\ reg'.last.forwarded <=> reg'.last.result = "Ok"
              /\ reg'.last.forwarded
                 => /\ reg'.last.key \in DOMAIN servers
                    /\ servers[reg'.last.key].status = "Connected"
              /\ ~reg'.last.forwarded
                 => reg'.last.result \in
                       {"ServerNotFound", "ServerNotConnected", "ToolNotFound"} ]_vars
    /\ [](reg.ops = 0 =>
          \A c \in ConnectionSpace, tool \in {"t1", "t2"} :
            LET k == reg_key("org-a", c.config.id)
                table == [ j \in DOMAIN servers \cup {k} |->
                             IF j = k THEN c ELSE servers[j] ]
                result == execute_tool(table, k, tool)
            IN  /\ result = "Ok"
                   => /\ c.status = "Connected"
                      /\ \E i \in DOMAIN c.tools : c.tools[i] = tool
                /\ result # "Ok"
                   => result \in {"ServerNotFound", "ServerNotConnected",
                                  "ToolNotFound"})

\* execute_tool was called on a registered entry that is not Connected and
\* returned ServerNotConnected
C19_Witness ==
    /\ reg.last.op = "execute"
    /\ reg.last.result = "ServerNotConnected"
    /\ ~reg.last.forwarded
    /\ reg.last.key \in DOMAIN servers
    /\ servers[reg.last.key].status # "Connected"

\* C20: health_check, once the check interval of an entry has elapsed, moves a
\* Connected entry whose child process has exited to Failed with a reason and
\* drops its handle, leaves a Connected entry whose child is running Connected
\* with its handle, and leaves every entry that is not Connected, or whose
\* interval has not elapsed, unchanged; it touches no child.  (The second part
\* applies the per-entry operator to every entry value; it does not depend on
\* the state and is evaluated before the first call.)
C20_HealthCheckTransitions ==
    /\ [][ (CallReturns /\ reg'.last.op = "health_check")
           => /\ procs' = procs
              /\ DOMAIN servers' = DOMAIN servers
              /\ \A k \in DOMAIN servers :
                    LET c == servers[k]
                        due == (now - c.last_health_check) \div TicksPerSecond
                                  >= c.config.health_check_interval_secs
                    IN  /\ c.status # "Connected" => servers'[k] = c
                        /\ ~due => servers'[k] = c
                        /\ ( /\ c.status = "Connected" /\ due /\ c.process # 0
                              /\ procs[c.process].state # "running" )
                           => /\ servers'[k].status = "Failed"
                              /\ servers'[k].reason # None
                              /\ servers'[k].process = 0
                        /\ ( /\ c.status = "Connected" /\ c.process # 0
                              /\ procs[c.process].state = "running" )
                           => /\ servers'[k].status = "Connected"
                              /\ servers'[k].process = c.process ]_vars
    /\ [](reg.ops = 0 =>
          \A c \in ConnectionSpace, wait \in {"exited", "running", "error"},
             t \in HealthTimes :
            LET after == health_check_entry(c, wait, t)
                due == t \div TicksPerSecond >= c.config.health_check_interval_secs
            IN  /\ c.status # "Connected" => after = c
                /\ (c.status = "Connected" /\ c.process # 0 /\ due /\ wait = "exited")
                   => (after.status = "Failed" /\ after.process = 0)
                /\ (c.status = "Connected" /\ wait = "running")
                   => (after.status = "Connected" /\ after.process = c.process)
                /\ ~due => after = c)

\* health_check, called when the interval of 60 s had elapsed, met a Connected
\* entry whose child process had exited and left it Failed without handle
C20_Witness ==
    /\ reg.last.op = "health_check"
    /\ \E h \in DOMAIN procs : procs[h].state = "exited"
    /\ \E k \in DOMAIN servers :
          /\ servers[k].status = "Failed"
          /\ servers[k].reason = "Process exited"
          /\ servers[k].process = 0
          /\ now - servers[k].last_health_check >= 60 * TicksPerSecond

\* The names the auth method binds, with the value bound, given what the
\* get_credential calls of the connect_server call returned
AuthBindings(auth_method, found) ==
    CASE auth_method.kind \in {"ApiKey", "OAuth2"} ->
            [ k \in { AuthEnvName(auth_method, n) :
                        n \in { m \in DOMAIN found : found[m] # None } }
                |-> found[CHOOSE n \in DOMAIN found :
                             found[n] # None /\ AuthEnvName(auth_method, n) = k] ]
      [] auth_method.kind = "Basic" ->
            [ k \in {"USERNAME", "PASSWORD"} |->
                IF k = "USERNAME" THEN "basic username" ELSE "basic password" ]
      [] OTHER -> <<>>

\* C21: the environment given to the child holds exactly the names of
\* config.env, of the credentials of the call and of the auth-method bindings,
\* and the value of each name is that of the latest of these three layers that
\* has it.  The bindings of ApiKey and OAuth2 are the credentials the call
\* looked up (api_key; client_id and client_secret), each with the value that
\* was stored when it was looked up.
C21_EnvLayering ==
    /\ [](env_build.pc = "built"
          => LET creds == env_build.credentials.map
                 auth == AuthBindings(env_build.auth_method, env_build.found)
                 built == env_build.env_vars
             IN  /\ DOMAIN built = DOMAIN env_build.config_env \cup DOMAIN creds
                                      \cup DOMAIN auth
                 /\ \A k \in DOMAIN built :
                       built[k] = IF k \in DOMAIN auth THEN auth[k]
                                  ELSE IF k \in DOMAIN creds THEN creds[k]
                                  ELSE env_build.config_env[k]
                 /\ DOMAIN env_build.found =
                       CASE env_build.auth_method.kind = "ApiKey" -> {"api_key"}
                         [] env_build.auth_method.kind = "OAuth2" ->
                               {"client_id", "client_secret"}
                         [] OTHER -> {})
    /\ [][ \A n \in DOMAIN env_build'.found \ DOMAIN env_build.found :
             \/ env_build'.found[n] = None
             \/ /\ n \in DOMAIN env_build.store
                /\ env_build'.found[n] = env_build.store[n] ]_vars

\* An environment was built for OAuth2 in which CLIENT_ID is in all three
\* layers and has the stored client_id, API_TOKEN is in config.env and in the
\* credentials and has the value of the credentials, USERNAME is kept from
\* config.env, and CLIENT_SECRET is not bound (its lookup found none)
\* although a client_secret is stored when the environment is complete
C21_Witness ==
    /\ env_build.pc = "built"
    /\ env_build.auth_method.kind = "OAuth2"
    /\ DOMAIN env_build.config_env = EnvKeys
    /\ env_build.credentials.some
    /\ DOMAIN env_build.credentials.map = {"API_TOKEN", "CLIENT_ID"}
    /\ env_build.env_vars["CLIENT_ID"] = "stored client_id"
    /\ env_build.env_vars["API_TOKEN"] = "call"
    /\ env_build.env_vars["USERNAME"] = "config"
    /\ "CLIENT_SECRET" \notin DOMAIN env_build.env_vars
    /\ "client_secret" \in DOMAIN env_build.store

\* C22: list_tools returns exactly the registered tools whose required
\* permission the session holds (every registered tool for role Admin), and a
\* call of a listed tool by the same session is neither NotFound nor
\* PermissionDenied: the handler is run.
C22_ListedToolsCallable ==
    tool_probe.pc \in {"listed", "called"}
    => /\ tool_probe.listed =
             { name \in DOMAIN handlers :
                  \/ tool_probe.session.context.role = "Admin"
                  \/ handlers[name] \in tool_probe.session.context.permissions }
       /\ (tool_probe.pc = "called" /\ tool_probe.tool_name \in tool_probe.listed)
          => tool_probe.outcome = "run"

\* A session that is not Admin listed some tools but not all, and called one
\* of the tools listed
C22_Witness ==
    /\ tool_probe.pc = "called"
    /\ tool_probe.session.context.role # "Admin"
    /\ tool_probe.listed # {}
    /\ tool_probe.listed # DOMAIN handlers
    /\ tool_probe.tool_name \in tool_probe.listed
    /\ tool_probe.outcome = "run"

\* C24: the response to a request that carries a string or numeric id carries
\* that id, whether it is a success response or an error response of any kind.
C24_ResponseCarriesRequestId ==
    \A c \in Calls :
        ( /\ calls[c].pc = "returned"
          /\ ParseOk(calls[c].line)
          /\ ParseId(calls[c].line.id) # None )
        => /\ calls[c].resp.kind \in {"result", "error"}
           /\ calls[c].resp.id = ParseId(calls[c].line.id)

\* The loop has answered one request with a success response and another with
\* an error response, both carrying the string id of the request
C24_Witness ==
    /\ calls[1].pc = "returned"
    /\ calls[1].line.id = "s:"
    /\ calls[1].resp.kind = "error"
    /\ calls[1].resp.id = "s:"
    /\ \E i \in DOMAIN run.log :
          run.log[i].resp.kind = "result" /\ run.log[i].resp.id = "s:"

\* C25: a request with a non-null id whose method is none of initialize,
\* tools/list, tools/call and notifications/initialized is answered with error
\* code -32601, also when it names no tenant and no user.
C25_UnknownMethodCode ==
    \A c \in Calls :
        ( /\ calls[c].pc = "returned"
          /\ ParseOk(calls[c].line)
          /\ ParseId(calls[c].line.id) # None
          /\ calls[c].line.method \notin {"initialize", "tools/list", "tools/call",
                                          "notifications/initialized"} )
        => /\ calls[c].resp.kind = "error"
           /\ calls[c].resp.code = -32601

\* C26: an input record that is not valid JSON gets exactly one response, with
\* id null and error code -32600, and the loop goes on to read the next record.
C26_MalformedRecordAnswered ==
    /\ [][ (calls[1].pc = "called" /\ calls[1].line.shape = "not_json"
            /\ calls'[1].pc # "called")
           => /\ calls'[1].pc = "returned"
              /\ calls'[1].resp = [kind |-> "error", id |-> None, code |-> -32600]
              /\ sessions' = sessions
              /\ run' = run ]_vars
    /\ [][ (run.pc = "handling" /\ run'.pc # "handling"
            /\ calls[1].line.shape = "not_json")
           => /\ run'.pc = "write_json"
              /\ run'.log = Append(run.log, [seq |-> run.nread,
                                             resp |-> calls[1].resp])
              /\ ~run'.shutdown_flag ]_vars
    /\ [][ (run.pc = "flush" /\ run'.pc \notin {"flush", "main"})
           => /\ run'.pc = "read"
              /\ ~run'.shutdown_flag
              /\ stdout' = ExpectedOutput(run.log)
              /\ out_buf' = <<>> ]_vars

\* The first record did not parse, its response (id null, code -32600) was
\* written, and the loop has read a second record and is handling it
C26_Witness ==
    /\ run.nread = 2
    /\ run.pc = "handling"
    /\ Len(run.log) = 1
    /\ run.log[1].resp = [kind |-> "error", id |-> None, code |-> -32600]
    /\ stdout = ExpectedOutput(run.log)

\* The principal of the request is admitted when it comes alone: its tenant is
\* configured at start with its user, or is not configured and auto-registration
\* is on
AdmittedAlone(line) ==
    IF line.tenant_id \in DOMAIN TenantManager_new(env)
    THEN TenantManager_new(env)[line.tenant_id].user_id = line.user_id
    ELSE env.DEFAULT_TENANT_ID # None

\* C27: when the overlapping requests are all tools/list requests of one
\* (tenant, user) that is admitted, every one of them that has returned has a
\* success response.
C27_OverlappingListsSucceed ==
    ( \A c \in Calls, d \in Calls :
         (calls[c].pc # "idle" /\ calls[d].pc # "idle")
         => /\ calls[c].line.method = "tools/list"
            /\ ParseId(calls[c].line.id) # None
            /\ calls[c].line.tenant_id = calls[d].line.tenant_id
            /\ calls[c].line.user_id = calls[d].line.user_id
            /\ calls[c].line.tenant_id # None
            /\ AdmittedAlone(calls[c].line) )
    => \A c \in Calls :
          calls[c].pc = "returned" => calls[c].resp.kind = "result"

\* Two tools/list requests of the demo principal overlapped (the second made
\* its session before the first) and both returned a success response
C27_Witness ==
    /\ \A c \in Calls : calls[c].line = DemoLine("n:0", "tools/list", NoParams)
    /\ calls[1].pc = "returned" /\ calls[1].resp.kind = "result"
    /\ calls[2].pc = "returned" /\ calls[2].resp.kind = "result"
    /\ calls[1].session > calls[2].session

\* C28: under any interleaving of concurrent first requests for one unknown
\* tenant that carry different users (auto-registration on), at most one user
\* is accepted for the tenant, and the context of the session made for a
\* request has the user of that request.
C28_OneUserPerTenant ==
    /\ \A c \in Calls :
          calls[c].session # 0
          => sessions[calls[c].session].context.user_id = calls[c].user
    /\ \A c \in Calls, d \in Calls :
          ( /\ calls[c].session # 0 /\ calls[d].session # 0
            /\ calls[c].tenant = calls[d].tenant )
          => calls[c].user = calls[d].user

\* The entries of the table that hold the handle h of a child
EntriesHolding(h) ==
    { k \in DOMAIN servers :
        servers[k].process = h \/ servers[k].container_id = h }

\* C29: whatever registry calls were made, every child process or container
\* that was started and is still running (neither killed, stopped nor exited)
\* is held by exactly one entry of the table; registering an entry again or
\* connecting an entry that is Connected discards no handle of a running
\* child.  (A child that a disconnect_server call in progress has taken out of
\* its entry to kill it is not counted.)
C29_LiveChildOwnedOnce ==
    \A h \in DOMAIN procs :
        ( /\ procs[h].state = "running"
          /\ \A c \in Calls : reg.call[c].taken # h )
        => Cardinality(EntriesHolding(h)) = 1

\* Two distinct (contextId, serverId) pairs never address the same entry of
\* the table
PairsAddressDistinctEntries ==
    \A t1 \in RegContexts, i1 \in ServerIds, t2 \in RegContexts, i2 \in ServerIds :
        ( /\ reg_key(t1, i1) \in DOMAIN servers
          /\ reg_key(t2, i2) \in DOMAIN servers
          /\ <<t1, i1>> # <<t2, i2>> )
        => reg_key(t1, i1) # reg_key(t2, i2)

\* What list_servers(contextId) returned are servers registered under exactly
\* that contextId: each MCPServerInfo is the one of the entry of (contextId,
\* its id)
ListedUnderOwnContext ==
    (reg.last.op = "list")
    => \A info \in reg.last.listed :
          /\ reg_key(reg.last.key, info.id) \in DOMAIN servers
          /\ MCPServerInfo(servers[reg_key(reg.last.key, info.id)]) = info

\* C30: entries are isolated by (contextId, serverId), also for identifiers
\* that contain "-": no two distinct pairs address the same entry of the table,
\* and list_servers(contextId) returns only servers registered under exactly
\* that contextId.
C30_EntriesIsolatedByPair ==
    PairsAddressDistinctEntries /\ ListedUnderOwnContext

\* C31: no call of the registry is suspended while it holds the lock of the
\* table: not on the container runtime (docker run of a Docker deployment), and
\* not on a second acquisition of the lock of the table (the read lock of
\* initialize_mcp_connection, the write lock of fetch_server_tools).
C31_NoSuspensionUnderTableLock ==
    \A c \in Calls :
        (reg.lock # "free" /\ reg.call[c].op = "connect")
        => /\ ~( /\ reg.call[c].pc = "start"
                 /\ servers[reg.call[c].key].config.deployment = "Docker" )
           /\ reg.call[c].pc \notin {"initialize", "fetch"}

\* cleanup_expired_sessions is at an await of a lock, queued behind the guards
\* alive or behind an older call of the queue
CleanupWaits ==
    /\ cleanup.pc \in AwaitPcs
    /\ \E i \in DOMAIN cleanup.waiting : cleanup.waiting[i][1] = CleanupTask

\* Client k is at an await of a lock, queued behind the guards alive or behind
\* an older call of the queue
ClientWaits(k) ==
    /\ cleanup.clients[k].pc \in AwaitPcs
    /\ \E i \in DOMAIN cleanup.waiting : cleanup.waiting[i][1] = k

\* C32: while cleanup_expired_sessions waits for or holds the lock of a
\* session's last_activity it holds no guard of the sessions table, and
\* whenever cleanup_expired_sessions or one of the calls beside it
\* (handle_request, update_activity, get_all_sessions) is in progress, one of
\* those in progress can take its next step: there is no deadlock.
C32_CleanupNeverDeadlocks ==
    /\ cleanup.pc \in {"activity", "activity_held"}
       => \A g \in cleanup.held : ~(g[1] = CleanupTask /\ g[2] = SessionsLock)
    /\ ( \/ cleanup.pc \notin {"idle", "done"}
         \/ \E k \in Clients : cleanup.clients[k].pc \notin {"idle", "returned"} )
       => \/ cleanup.pc \notin {"idle", "done"} /\ ~CleanupWaits
          \/ \E k \in Clients : cleanup.clients[k].pc \notin {"idle", "returned"} /\ ~ClientWaits(k)

\* C32 witness: the cleanup holds the read lock of a session's last_activity
\* while an update_activity on the same session waits for its write lock; the
\* session was created by a handle_request
C32_Witness ==
    /\ cleanup.pc = "activity_held"
    /\ \E k \in Clients :
          /\ cleanup.clients[k].pc = "activity"
          /\ cleanup.clients[k].session = cleanup.session
          /\ ClientWaits(k)

\* C33: a session that cleanup_expired_sessions takes out of the table has, at
\* the moment it is taken out, a last_activity at least 30 minutes old, also
\* when update_activity ran on it after it was classified; a younger session
\* is kept.
C33_RemovedOnlyIfExpired ==
    [][ \A i \in cleanup'.removed \ cleanup.removed :
            now - sessions[i].last_activity >= SessionTimeout ]_vars

\* The keys a bucket can be stored under
BucketKeys == { bucket_key(t, Op(kind, 0)) : t \in Tenants, kind \in OpKinds }

\* C34: while the server runs, a session whose last_activity is more than 30
\* minutes old and a bucket whose last_refill is more than one hour old are
\* eventually taken out of their tables, unless they are used again first.
C34_ExpiredEntriesCollected ==
    /\ \A i \in 1 .. MaxRecords :
          ( /\ run.pc # "exited"
            /\ i \in SessionTable
            /\ now - sessions[i].last_activity > SessionTimeout )
          ~> \/ run.pc = "exited"
             \/ i \notin SessionTable
             \/ now - sessions[i].last_activity <= SessionTimeout
    /\ \A k \in BucketKeys :
          ( /\ run.pc # "exited"
            /\ k \in DOMAIN buckets
            /\ now - buckets[k].last_refill > BucketExpiry )
          ~> \/ run.pc = "exited"
             \/ k \notin DOMAIN buckets
             \/ now - buckets[k].last_refill <= BucketExpiry

\* The tokens (in 1/TicksPerSecond) the bucket of key holds for a charge made
\* now: those of the refilled bucket, or a full new bucket of the capacity
TokensBefore(key, capacity) ==
    IF key \in DOMAIN buckets
    THEN refill(buckets[key], now).tokens
    ELSE capacity * TicksPerSecond

\* C35: an admitted tools/call of events_send whose params.arguments.events
\* has n elements takes min(n, batch ceiling) tokens from the event-put bucket
\* of the tenant.
C35_EventBatchCost ==
    [][ ( /\ calls[1].pc = "aws"
          /\ calls'[1].pc = "incr"
          /\ calls[1].line.params.name = "events_send"
          /\ calls[1].line.params.arg_events >= 0 )
        => LET key == bucket_key(calls[1].tenant, Op("EventBridgePutEvents", 0))
           IN  TokensBefore(key, limits.eventbridge_put_events_per_sec)
                  - buckets'[key].tokens
               = Min(calls[1].line.params.arg_events,
                     limits.eventbridge_events_batch_size) * TicksPerSecond ]_vars

\* C36: a tools/call of a proxy handler (mcp_proxy, mcp_list_tools) creates and
\* debits no bucket.
C36_ProxyDebitsNoBucket ==
    [][ ( /\ calls[1].pc \notin {"idle", "returned"}
          /\ calls[1].line.method = "tools/call"
          /\ calls[1].line.params.name \in {"mcp_proxy", "mcp_list_tools"} )
        => buckets' = buckets ]_vars

\* C37: when mcp_proxy is given a tool name without a server id prefix and
\* selects a sub-server for it, the selected entry belongs to the context of
\* the caller and advertises that tool (the name is in its tool list); an
\* entry that does not advertise the tool is never the one selected.
C37_ProxySelectsAdvertisingServer ==
    \A c \in Calls :
        (reg.call[c].op = "proxy" /\ find_dot(reg.call[c].tool_name) = 0)
        => /\ reg.call[c].key \in DOMAIN servers
           /\ starts_with(reg.call[c].key, reg.call[c].tenant_id \o "-")
           /\ \E i \in DOMAIN servers[reg.call[c].key].tools :
                 servers[reg.call[c].key].tools[i] = reg.call[c].tool_name

\* C38: in every state of the table an entry whose status is Disconnected has
\* no process handle, no container id, no endpoint and an empty tool list, and
\* an entry whose status is Failed or Disconnected holds no handle of a child
\* process or container that is still running.
C38_StoppedEntriesHoldNothing ==
    \A k \in DOMAIN servers :
       /\ servers[k].status = "Disconnected"
          => /\ servers[k].process = 0
             /\ servers[k].container_id = 0
             /\ servers[k].endpoint = None
             /\ servers[k].tools = <<>>
       /\ servers[k].status \in {"Disconnected", "Failed"}
          => \A h \in DOMAIN procs :
                h \in {servers[k].process, servers[k].container_id}
                => procs[h].state # "running"

\* The record is one handle_request answers without processing it: it does not
\* parse as an MCPRequest, or its id is absent or null
Unprocessed(line) == ~ParseOk(line) \/ ParseId(line.id) = None

\* C39: handling a notification (id absent or null) or a record that fails to
\* parse changes no server state: from the moment the record is read until the
\* next one is read no tenant is registered, no session is created, no counter
\* of a session is incremented and no token bucket is created or debited.
C39_UnprocessedRecordChangesNothing ==
    [][ (calls[1].pc # "idle" /\ Unprocessed(calls[1].line))
        => /\ tenant_configs' = tenant_configs
           /\ sessions' = sessions
           /\ buckets' = buckets
           /\ charges' = charges ]_vars

\* Reached: a tools/call notification has been handled after an earlier request
\* had created a session and a bucket that it could have changed
C39_Witness ==
    /\ calls[1].pc = "returned"
    /\ ParseOk(calls[1].line)
    /\ calls[1].line.id \in {"absent", "null"}
    /\ calls[1].line.method = "tools/call"
    /\ calls[1].resp = NoResponse
    /\ Len(sessions) > 0
    /\ DOMAIN buckets # {}

\* C40: a credential stored by integration_connect for a sub-server is the one
\* connect_server reads back for the same session and server: for every
\* credential name of the call that get_credential is asked for, the key the
\* handler wrote equals the key looked up and the value found is the value
\* given, whatever the context of the session (personal or organization).
C40_StoredCredentialReadBack ==
    ( /\ tool_probe.pc = "calling"
      /\ tool_probe.tool_name = "integration_connect"
      /\ reg.call[1].op = "connect"
      /\ reg.call[1].pc = "start" )
    => \A n \in DOMAIN reg.call[1].found
                  \cap DOMAIN tool_probe.args.credentials.map :
          /\ secret_key(tool_probe.session.context,
                        tool_probe.args.service_id, n)
                = credential_key(get_context_id(tool_probe.session.context),
                                 tool_probe.args.service_id, n)
          /\ reg.call[1].found[n] = tool_probe.args.credentials.map[n]

====
